---- MODULE Spec2Model ----
(***************************************************************************)
(* A model of the mini-swe-agent control loop (agents/default.py), of the  *)
(* Docker sandbox executor (environments/docker_cam.py) and of the caller  *)
(* that records the outcome of a run (run/extra/swebench_single_exp.py).   *)
(*                                                                         *)
(* Text is modelled as a sequence of tokens.  Each token stands for a      *)
(* fixed piece of text that is never split: FENCE is the three backticks   *)
(* of a fence, "bash" the language tag, "\n" a line break, " " a blank     *)
(* that is not a line break, and so on.  The functions that work on text   *)
(* (the action pattern, strip, splitlines, the JSON decoder) are written   *)
(* out on these sequences the way the code runs them on characters.        *)
(***************************************************************************)
EXTENDS Integers, Sequences, FiniteSets, TLC

(***************************************************************************)
(* Bounds of the model.                                                    *)
(***************************************************************************)
\* the largest step ceiling a configuration is drawn with
MaxStepLimit == 2
\* the largest cost ceiling a configuration is drawn with
MaxCostLimit == 2
\* model calls after which a run without an effective ceiling is cut off
MaxCalls == 2
\* segments a generated assistant response is concatenated from
MaxSegs == 3
\* tokens of a generated command output
MaxOutLen == 4
\* key/value pairs of a generated JSON object
MaxPairs == 3
\* calls of cleanup on one environment
MaxCleanups == 2
\* threads call_advanced_model_with_timeout starts on one adapter
MaxThreads == 2
\* the largest routine_ask_interval a configuration is drawn with
MaxInterval == 2
\* calls of run() on one agent
MaxRuns == 2
\* entries of a drawn forward_env list
MaxForward == 2

(***************************************************************************)
(* Tokens.                                                                 *)
(***************************************************************************)
\* the three backticks that open and close a fenced block
FENCE == "<fence>"
BASH  == "bash"
NL    == "\n"
SP    == " "
WORD  == "x"
\* the two sentinel literals of has_finished
SENT1 == "MINI_SWE_AGENT_FINAL_OUTPUT"
SENT2 == "COMPLETE_TASK_AND_SUBMIT_FINAL_OUTPUT"
\* JSON punctuation, the escape sequence \n inside a JSON string, literals
LBRACE == "{"
RBRACE == "}"
LBRACK == "["
RBRACK == "]"
COLON  == ":"
COMMA  == ","
QUOTE  == "\""
ESCNL  == "\\n"
NULLTOK == "null"
KOUTPUT == "output"
KRETURNCODE == "returncode"
Digits == {"0", "3"}

Min(S) == CHOOSE x \in S : \A y \in S : x <= y
Max(S) == CHOOSE x \in S : \A y \in S : x >= y

\* str.isspace on one token
IsWS(t) == t \in {NL, SP}

\* str.lstrip / str.rstrip / str.strip
RECURSIVE LStrip(_)
LStrip(s) == IF s # <<>> /\ IsWS(Head(s)) THEN LStrip(Tail(s)) ELSE s
RECURSIVE RStrip(_)
RStrip(s) ==
    IF s # <<>> /\ IsWS(s[Len(s)]) THEN RStrip(SubSeq(s, 1, Len(s) - 1)) ELSE s
Strip(s) == RStrip(LStrip(s))

\* all sequences over S of length at most n
RECURSIVE SeqsUpTo(_, _)
SeqsUpTo(S, n) ==
    IF n = 0 THEN {<<>>}
    ELSE LET P == SeqsUpTo(S, n - 1)
         IN P \cup {Append(p, x) : p \in {q \in P : Len(q) = n - 1}, x \in S}

\* the concatenation of a sequence of sequences
RECURSIVE Flatten(_)
Flatten(ss) == IF ss = <<>> THEN <<>> ELSE Head(ss) \o Flatten(Tail(ss))

(***************************************************************************)
(* Values of Python objects that travel through an execution result: a     *)
(* str, an int, None, or a nested list/dict (whose content the loop never  *)
(* inspects).                                                              *)
(***************************************************************************)
StrV(s) == [t |-> "str", s |-> s, n |-> 0]
NumV(n) == [t |-> "int", s |-> <<>>, n |-> n]
NoneV   == [t |-> "None", s |-> <<>>, n |-> 0]
ListV   == [t |-> "list", s |-> <<>>, n |-> 0]
DictV   == [t |-> "dict", s |-> <<>>, n |-> 0]

(***************************************************************************)
(* re.findall(action_regex, content, re.DOTALL) with                       *)
(*     action_regex = FENCE bash \s* \n (.*?) \n FENCE                      *)
(***************************************************************************)
\* length of the whitespace run that starts at position i
RECURSIVE WsRun(_, _)
WsRun(s, i) == IF i <= Len(s) /\ IsWS(s[i]) THEN 1 + WsRun(s, i + 1) ELSE 0

\* a line break and a fence match at position j
CloseAt(s, j) == j + 1 <= Len(s) /\ s[j] = NL /\ s[j + 1] = FENCE

\* the first position >= from where a closing fence matches, 0 when none:
\* the lazy group (.*?) stops at the first closing fence
FirstClose(s, from) ==
    LET C == {j \in from..Len(s) : CloseAt(s, j)}
    IN IF C = {} THEN 0 ELSE Min(C)

NoMatch == [ok |-> FALSE, content |-> <<>>, end |-> 0]

\* one match attempt of the pattern at position i.  \s* is greedy: it gives
\* back whitespace until the token after it is a line break and a closing
\* fence follows somewhere.
MatchAt(s, i) ==
    IF ~(i + 1 <= Len(s) /\ s[i] = FENCE /\ s[i + 1] = BASH) THEN NoMatch
    ELSE LET w == WsRun(s, i + 2)
             K == {k \in (i + 2)..(i + 1 + w) :
                      s[k] = NL /\ FirstClose(s, k + 1) # 0}
         IN IF K = {} THEN NoMatch
            ELSE LET k == Max(K)
                     j == FirstClose(s, k + 1)
                 IN [ok |-> TRUE, content |-> SubSeq(s, k + 1, j - 1), end |-> j + 1]

\* the captured groups of all non-overlapping matches, leftmost first
RECURSIVE FindAll(_, _)
FindAll(s, pos) ==
    LET I == {i \in pos..Len(s) : MatchAt(s, i).ok}
    IN IF I = {} THEN <<>>
       ELSE LET m == MatchAt(s, Min(I))
            IN <<m.content>> \o FindAll(s, m.end + 1)

(***************************************************************************)
(* json.loads on a token sequence.                                         *)
(***************************************************************************)
\* the first position >= i that holds no JSON whitespace
RECURSIVE SkipWs(_, _)
SkipWs(s, i) == IF i <= Len(s) /\ IsWS(s[i]) THEN SkipWs(s, i + 1) ELSE i

\* a decoding result: ok, the value, the members of an object (in the order
\* they were read), and the position after the value
JFail == [ok |-> FALSE, v |-> NoneV, pairs |-> <<>>, next |-> 0]
JOk(v, pairs, next) == [ok |-> TRUE, v |-> v, pairs |-> pairs, next |-> next]

\* the content of a string literal: the escape sequence \n becomes a line break
RECURSIVE Unescape(_)
Unescape(s) ==
    IF s = <<>> THEN <<>>
    ELSE <<IF Head(s) = ESCNL THEN NL ELSE Head(s)>> \o Unescape(Tail(s))

\* a string literal at position i; a raw line break inside it is a control
\* character, which the decoder rejects
ParseString(s, i) ==
    IF ~(i <= Len(s) /\ s[i] = QUOTE) THEN JFail
    ELSE LET Q == {j \in (i + 1)..Len(s) : s[j] = QUOTE}
         IN IF Q = {} THEN JFail
            ELSE LET j == Min(Q)
                     body == SubSeq(s, i + 1, j - 1)
                 IN IF \E m \in 1..Len(body) : body[m] = NL THEN JFail
                    ELSE JOk(StrV(Unescape(body)), <<>>, j + 1)

\* the digits of a number that starts at position i
RECURSIVE DigitRun(_, _)
DigitRun(s, i) ==
    IF i <= Len(s) /\ s[i] \in Digits THEN <<s[i]>> \o DigitRun(s, i + 1) ELSE <<>>

DigitVal(d) == IF d = "3" THEN 3 ELSE 0

RECURSIVE Decimal(_, _)
Decimal(ds, acc) ==
    IF ds = <<>> THEN acc ELSE Decimal(Tail(ds), 10 * acc + DigitVal(Head(ds)))

\* a number: a lone 0, or a run of digits that does not start with 0
ParseNumber(s, i) ==
    IF s[i] = "0" THEN JOk(NumV(0), <<>>, i + 1)
    ELSE LET ds == DigitRun(s, i) IN JOk(NumV(Decimal(ds, 0)), <<>>, i + Len(ds))

RECURSIVE ParseValue(_, _)
RECURSIVE ParseMembers(_, _, _)
RECURSIVE ParseElements(_, _)

\* the members of an object, the first key expected at position i
ParseMembers(s, i, acc) ==
    LET key == ParseString(s, i)
    IN IF ~key.ok THEN JFail
       ELSE LET c == SkipWs(s, key.next)
            IN IF ~(c <= Len(s) /\ s[c] = COLON) THEN JFail
               ELSE LET val == ParseValue(s, SkipWs(s, c + 1))
                    IN IF ~val.ok THEN JFail
                       ELSE LET e == SkipWs(s, val.next)
                                got == Append(acc, [k |-> key.v.s, v |-> val.v])
                            IN IF e > Len(s) THEN JFail
                               ELSE IF s[e] = RBRACE THEN JOk(DictV, got, e + 1)
                               ELSE IF s[e] = COMMA
                                    THEN ParseMembers(s, SkipWs(s, e + 1), got)
                               ELSE JFail

\* the elements of an array, the first one expected at position i
ParseElements(s, i) ==
    LET val == ParseValue(s, i)
    IN IF ~val.ok THEN JFail
       ELSE LET e == SkipWs(s, val.next)
            IN IF e > Len(s) THEN JFail
               ELSE IF s[e] = RBRACK THEN JOk(ListV, <<>>, e + 1)
               ELSE IF s[e] = COMMA THEN ParseElements(s, SkipWs(s, e + 1))
               ELSE JFail

\* one JSON value at position i
ParseValue(s, i) ==
    IF i > Len(s) THEN JFail
    ELSE IF s[i] = QUOTE THEN ParseString(s, i)
    ELSE IF s[i] \in Digits THEN ParseNumber(s, i)
    ELSE IF s[i] = NULLTOK THEN JOk(NoneV, <<>>, i + 1)
    ELSE IF s[i] = LBRACE
         THEN LET m == SkipWs(s, i + 1)
              IN IF m <= Len(s) /\ s[m] = RBRACE THEN JOk(DictV, <<>>, m + 1)
                 ELSE ParseMembers(s, m, <<>>)
    ELSE IF s[i] = LBRACK
         THEN LET m == SkipWs(s, i + 1)
              IN IF m <= Len(s) /\ s[m] = RBRACK THEN JOk(ListV, <<>>, m + 1)
                 ELSE ParseElements(s, m)
    ELSE JFail

\* json.loads: one value, then nothing but whitespace ("Extra data" otherwise)
JsonLoads(s) ==
    LET r == ParseValue(s, SkipWs(s, 1))
    IN IF r.ok /\ SkipWs(s, r.next) > Len(s) THEN r ELSE JFail

\* key in parsed / parsed[key] on the members read: a repeated key keeps the
\* value read last
HasKey(pairs, key) == \E m \in 1..Len(pairs) : pairs[m].k = key
Lookup(pairs, key) == pairs[Max({m \in 1..Len(pairs) : pairs[m].k = key})].v

(***************************************************************************)
(* DockerEnvironmentCam.execute, after the subprocess has ended: the       *)
(* result dict built from the captured stdout and the shell return code.   *)
(***************************************************************************)
Unwraps(parsed) ==
    /\ parsed.ok
    /\ parsed.v.t = "dict"
    /\ HasKey(parsed.pairs, <<KOUTPUT>>)
    /\ HasKey(parsed.pairs, <<KRETURNCODE>>)

\* a variant that takes the output of the envelope and keeps the shell's
\* return code
ExecuteResultShellCode(stdout, returncode) ==
    LET parsed == JsonLoads(Strip(stdout))
    IN IF Unwraps(parsed)
       THEN [output |-> Lookup(parsed.pairs, <<KOUTPUT>>),
             returncode |-> NumV(returncode)]
       ELSE [output |-> StrV(stdout), returncode |-> NumV(returncode)]

\* a variant that hands over no output of a command that failed
ExecuteResultFailedEmpty(stdout, returncode) ==
    LET parsed == JsonLoads(Strip(stdout))
    IN IF Unwraps(parsed)
       THEN [output |-> Lookup(parsed.pairs, <<KOUTPUT>>),
             returncode |-> Lookup(parsed.pairs, <<KRETURNCODE>>)]
       ELSE [output |-> StrV(IF returncode = 0 THEN stdout ELSE <<>>),
             returncode |-> NumV(returncode)]

ExecuteResult(stdout, returncode) ==
    LET parsed == JsonLoads(Strip(stdout))
    IN IF Unwraps(parsed)
       THEN [output |-> Lookup(parsed.pairs, <<KOUTPUT>>),
             returncode |-> Lookup(parsed.pairs, <<KRETURNCODE>>)]
       ELSE [output |-> StrV(stdout), returncode |-> NumV(returncode)]

(***************************************************************************)
(* DefaultAgent.has_finished on the output of an execution result.         *)
(***************************************************************************)
\* str.splitlines(keepends=True)
RECURSIVE SplitLines(_)
SplitLines(s) ==
    IF s = <<>> THEN <<>>
    ELSE LET B == {j \in 1..Len(s) : s[j] = NL}
         IN IF B = {} THEN <<s>>
            ELSE <<SubSeq(s, 1, Min(B))>> \o SplitLines(SubSeq(s, Min(B) + 1, Len(s)))

Sentinels == {<<SENT1>>, <<SENT2>>}

\* a variant of has_finished without the lstrip of the output
HasFinishedNoLstrip(out) ==
    IF out.t # "str" THEN [raises |-> "AttributeError", payload |-> <<>>]
    ELSE LET lines == SplitLines(out.s)
         IN IF lines # <<>> /\ Strip(lines[1]) \in Sentinels
            THEN [raises |-> "Submitted", payload |-> Flatten(Tail(lines))]
            ELSE [raises |-> "none", payload |-> <<>>]

\* what has_finished does with output["output"]: it raises AttributeError on
\* a value without lstrip, raises Submitted with the joined remaining lines,
\* or returns
HasFinished(out) ==
    IF out.t # "str" THEN [raises |-> "AttributeError", payload |-> <<>>]
    ELSE LET lines == SplitLines(LStrip(out.s))
         IN IF lines # <<>> /\ Strip(lines[1]) \in Sentinels
            THEN [raises |-> "Submitted", payload |-> Flatten(Tail(lines))]
            ELSE [raises |-> "none", payload |-> <<>>]

(***************************************************************************)
(* Message contents.  A rendered template is kept as the template's name   *)
(* with the variables it was rendered with; str(e) of an exception and the *)
(* content of a model response are raw text.                               *)
(***************************************************************************)
Rendered(tpl, act, acts, out, rc) ==
    [tpl |-> tpl, text |-> <<>>, action |-> act, actions |-> acts,
     output |-> out, returncode |-> rc]
Raw(text) ==
    [tpl |-> "raw", text |-> text, action |-> <<>>, actions |-> <<>>,
     output |-> NoneV, returncode |-> NoneV]
\* add_message: role, content and the time of the call; the time is a value
\* the loop never reads
Msg(role, content) == [role |-> role, content |-> content, timestamp |-> "time"]
\* add_message("assistant", **response): the response's extra comes along
Assistant(content) ==
    [role |-> "assistant", content |-> content, timestamp |-> "time",
     extra |-> "response"]

\* add_message(role, content, **kwargs): the keyword arguments come last in
\* the dict display, so theirs is the value of a key named twice
AddMessage(role, content, kwargs) == kwargs @@ Msg(role, content)

\* a variant that hands the loop's message over as it is
CleanKeepsAll(msg) == msg

\* clean_messages of LitellmResponseAPIModel._query
Clean(msg) == [role |-> msg.role, content |-> msg.content]
CleanAll(msgs) == [i \in 1..Len(msgs) |-> Clean(msgs[i])]
\* the input of a provider call: everything without a previous response id,
\* else clean_messages[-1:]
Input(msgs, previous_response_id) ==
    IF previous_response_id = "None"
    THEN CleanAll(msgs)
    ELSE SubSeq(CleanAll(msgs), Len(msgs), Len(msgs))

\* the exception classes of agents/default.py
NonTerminatingKinds == {"FormatError", "ExecutionTimeoutError"}
TerminatingKinds == {"Submitted", "LimitsExceeded"}
\* what the collaborators raise besides: the adapter's non-retryable errors
\* and user cancellation, the executor's failure to run the container tool
ModelErrors == {"AuthenticationError", "KeyboardInterrupt"}
\* the classes retry_if_not_exception_type of _query lists
NonRetryable ==
    {"UnsupportedParamsError", "NotFoundError", "PermissionDeniedError",
     "ContextWindowExceededError", "APIError", "AuthenticationError",
     "KeyboardInterrupt"}
\* failures of a provider call outside those classes
TransientErrors == {"RateLimitError", "Timeout"}
\* stop_after_attempt(10)
MaxAttempts == 10
\* a variant that retries whatever the failure is
RetriesAll(kind) == TRUE
\* retry_if_not_exception_type
Retries(kind) == kind \notin NonRetryable
SandboxErrors == {"OSError"}
\* KeyboardInterrupt derives from BaseException, not from Exception
IsException(kind) == kind # "KeyboardInterrupt"

NoExc == [kind |-> "none", text |-> Raw(<<>>)]
Raise(kind, text) == [kind |-> kind, text |-> text]

(***************************************************************************)
(* What a sandboxed command prints, described by how the text is built:    *)
(* plain text, or the serialisation of a JSON value with text around it.   *)
(***************************************************************************)
RECURSIVE Escape(_)
Escape(s) ==
    IF s = <<>> THEN <<>>
    ELSE <<IF Head(s) = NL THEN ESCNL ELSE Head(s)>> \o Escape(Tail(s))

SerVal(v) ==
    CASE v.t = "str" -> <<QUOTE>> \o Escape(v.s) \o <<QUOTE>>
      [] v.t = "int" -> IF v.n = 3 THEN <<"3">> ELSE <<"0">>
      [] v.t = "None" -> <<NULLTOK>>
      [] v.t = "list" -> <<LBRACK, RBRACK>>
      [] OTHER -> <<LBRACE, RBRACE>>

RECURSIVE SerMembers(_)
SerMembers(pairs) ==
    IF pairs = <<>> THEN <<>>
    ELSE <<QUOTE>> \o Head(pairs).k \o <<QUOTE, COLON, SP>> \o SerVal(Head(pairs).v)
         \o (IF Tail(pairs) = <<>> THEN <<>> ELSE <<COMMA, SP>> \o SerMembers(Tail(pairs)))

SerObj(pairs) == <<LBRACE>> \o SerMembers(pairs) \o <<RBRACE>>

Gen(form, pre, pairs, v, post, cut) ==
    [form |-> form, pre |-> pre, pairs |-> pairs, v |-> v, post |-> post, cut |-> cut]
GenText(text) == Gen("text", <<>>, <<>>, StrV(text), <<>>, 0)
GenObj(pre, pairs, post) == Gen("object", pre, pairs, NoneV, post, 0)

\* the text a command of that description prints
Emit(g) ==
    CASE g.form = "text" -> g.v.s
      [] g.form = "object" -> g.pre \o SerObj(g.pairs) \o g.post
      [] g.form = "scalar" -> g.pre \o SerVal(g.v) \o g.post
      [] g.form = "array" -> g.pre \o <<LBRACK>> \o SerObj(g.pairs) \o <<RBRACK>> \o g.post
      [] g.form = "prefix" -> SubSeq(SerObj(g.pairs), 1, g.cut)
      [] OTHER -> SerObj(g.pairs) \o g.post

\* how a subprocess.run of the container tool ends: the command exits, the
\* timeout expires (with the bytes captured so far, or None), or the tool
\* cannot be run
Exit(g, rc) ==
    [kind |-> "exit", cmd |-> <<>>, stdout |-> Emit(g), returncode |-> rc,
     captured |-> TRUE, gen |-> g, envargs |-> <<>>]
TimedOut(text, captured) ==
    [kind |-> "timeout", cmd |-> <<>>, stdout |-> text, returncode |-> 0,
     captured |-> captured, gen |-> GenText(text), envargs |-> <<>>]
Failed(kind) ==
    [kind |-> kind, cmd |-> <<>>, stdout |-> <<>>, returncode |-> 0,
     captured |-> FALSE, gen |-> GenText(<<>>), envargs |-> <<>>]
NoProc == Failed("none")
NoOutput == [output |-> NoneV, returncode |-> NoneV]

(***************************************************************************)
(* The environment variables of a sandboxed command.  A dict is the        *)
(* sequence of its items in insertion order; the host environment maps a   *)
(* name to its value, None when the name is not set.                       *)
(***************************************************************************)
EnvVar(k, v) == [k |-> k, v |-> v]
DictKeys(d) == {d[i].k : i \in 1..Len(d)}
DictGet(d, key) == d[CHOOSE i \in 1..Len(d) : d[i].k = key].v

\* {**a, **b}
MergeDicts(a, b) ==
    [i \in 1..Len(a) |->
        IF a[i].k \in DictKeys(b) THEN EnvVar(a[i].k, DictGet(b, a[i].k)) ELSE a[i]]
    \o SelectSeq(b, LAMBDA e : e.k \notin DictKeys(a))

utf8_env ==
    <<EnvVar("LANG", StrV(<<"C.UTF-8">>)), EnvVar("LC_ALL", StrV(<<"C.UTF-8">>)),
      EnvVar("PYTHONIOENCODING", StrV(<<"utf-8">>))>>

\* the -e options of the forward_env loop: a listed name that os.getenv
\* finds
RECURSIVE Forwarded(_, _)
Forwarded(keys, host) ==
    IF keys = <<>> THEN <<>>
    ELSE (IF host[Head(keys)] # NoneV
          THEN <<EnvVar(Head(keys), host[Head(keys)])>>
          ELSE <<>>)
         \o Forwarded(Tail(keys), host)

\* a variant that puts the options of env first
EnvArgsEnvFirst(fwd, e, host) == e \o Forwarded(fwd, host)

\* the -e options of a docker exec, in the order execute extends cmd
EnvArgs(fwd, e, host) == Forwarded(fwd, host) \o e

\* a variant that provisions like execute
StartArgsForwarding(fwd, e, host) == Forwarded(fwd, host) \o e

\* the -e options of the docker run of _start_container
StartArgs(fwd, e, host) == e

\* no file at the path, and code_replace not called
NoFile == [exists |-> FALSE, content |-> <<>>]
NoCall == [start_line |-> 0, end_line |-> 0, new_code |-> <<>>, use_lint |-> FALSE,
           lint |-> <<>>, before |-> NoFile, returned |-> "None"]

\* the value the command finds under a name: that of the last -e option
\* for it, None without one
Seen(args, key) ==
    IF \E i \in 1..Len(args) : args[i].k = key
    THEN args[CHOOSE i \in 1..Len(args) :
                 /\ args[i].k = key
                 /\ \A j \in (i + 1)..Len(args) : args[j].k # key].v
    ELSE NoneV

(***************************************************************************)
(* Consultation of the advanced model (ExperimentMixin).                   *)
(***************************************************************************)
ASK == "ASK_ADVANCED_MODEL_FOR_HELP"

CheckAdvancedModelRequest(out) ==
    LET lines == SplitLines(LStrip(out.s))
    IN lines # <<>> /\ Strip(lines[1]) = <<ASK>>

\* how a call of the advanced model ends, with the cost it added to the
\* advanced model's own total
ConsultCosts == {0, 1}
ConsultOutcomes ==
    {[kind |-> "response", delta |-> d] : d \in ConsultCosts}
    \cup {[kind |-> "timeout", delta |-> 0], [kind |-> "error", delta |-> 0]}
NotConfigured == [kind |-> "not_configured", delta |-> 0]

\* the consultation_response text around the advice
Consultation(type, advice) ==
    [tpl |-> "advanced_model_consultation", text |-> <<type, advice>>,
     action |-> <<>>, actions |-> <<>>, output |-> NoneV, returncode |-> NoneV]

(***************************************************************************)
(* State.                                                                  *)
(***************************************************************************)
VARIABLES
    pc,           \* where main / run() / step() stands
    messages,     \* DefaultAgent.messages
    step_limit,   \* AgentConfig.step_limit
    cost_limit,   \* AgentConfig.cost_limit
    n_calls,      \* model.n_calls
    cost,         \* model.cost
    response,     \* the content of the response query() returned
    action,       \* the action parse_action returned
    proc,         \* the last subprocess the executor ran
    output,       \* the result dict env.execute returned
    exc,          \* the exception in flight
    ret,          \* what run() returned
    exit_status,  \* main's exit_status
    result,       \* main's result
    previous_response_id,   \* LitellmResponseAPIModel._previous_response_id
    provider,     \* the conversation the provider holds under that id
    sent,         \* the input of the last provider call
    attempts,     \* provider calls made by the current model.query
    failure,      \* the class of the last failure among them
    consultation_strategy,  \* ExperimentMixin.consultation_strategy
    routine_ask_interval,   \* ExperimentMixin.routine_ask_interval
    advanced_model,         \* whether ExperimentMixin.advanced_model is set
    initial_analysis,       \* ExperimentMixin.initial_analysis
    consultation_count,     \* ExperimentMixin.consultation_count
    forward_env,  \* DockerEnvironmentConfig.forward_env
    env,          \* DockerEnvironmentConfig.env after __init__
    host_env,     \* os.environ of the host
    runs,         \* calls of run() on the agent
    executions,   \* env.execute calls made by execute_action
    extra_fields, \* what the response of model.query carries besides content
    container_id, \* DockerEnvironmentCam.container_id
    docker_run,   \* the docker run calls of _start_container
    cleanups,     \* the cleanup calls, each with the shell it started
    advanced,     \* n_calls and cost of the advanced model's adapter
    threads,      \* the threads inside that adapter's query()
    file,         \* the file at the path code_replace is called with
    call          \* the arguments of code_replace and what it returned

adapter == <<previous_response_id, provider, sent, attempts, failure>>
mixin == <<consultation_strategy, routine_ask_interval, advanced_model,
           initial_analysis, consultation_count>>
sandbox == <<forward_env, env, host_env>>
provision == <<container_id, docker_run, cleanups>>
concurrent == <<advanced, threads>>
tool == <<file, call>>
others == <<extra_fields, provision, concurrent, tool>>

vars == <<pc, messages, step_limit, cost_limit, n_calls, cost, response, action,
          proc, output, exc, ret, exit_status, result, adapter, mixin, sandbox,
          runs, others, executions>>

\* the names a configuration forwards or sets
VarNames == {"LANG", "TOKEN"}

\* a started container and the adapter's response fields; the advanced
\* model's adapter and the edited file at rest
InitOthers ==
    /\ executions = 0
    /\ extra_fields = [extra |-> "response"]
    /\ container_id = "cid"
    /\ docker_run = <<[envargs |-> StartArgs(forward_env, env, host_env),
                       outcome |-> "started"]>>
    /\ cleanups = <<>>
    /\ advanced = [n_calls |-> 0, cost |-> 0]
    /\ threads = <<>>
    /\ file = NoFile
    /\ call = NoCall

Init ==
    /\ pc = "idle"
    /\ messages = <<>>
    /\ step_limit \in 0..MaxStepLimit
    /\ cost_limit \in 0..MaxCostLimit
    /\ n_calls = 0
    /\ cost = 0
    /\ response = <<>>
    /\ action = <<>>
    /\ proc = NoProc
    /\ output = NoOutput
    /\ exc = NoExc
    /\ ret = NoExc
    /\ exit_status = "None"
    /\ result = Raw(<<>>)
    /\ previous_response_id = "None"
    /\ provider = <<>>
    /\ sent = <<>>
    /\ attempts = 0
    /\ failure = "none"
    /\ consultation_strategy = "ASK_BY_AGENT"
    /\ routine_ask_interval = 1
    /\ advanced_model = FALSE
    /\ initial_analysis = FALSE
    /\ consultation_count = 0
    /\ forward_env = <<>>
    /\ env = MergeDicts(utf8_env, <<>>)
    /\ host_env = [name \in VarNames |-> NoneV]
    /\ runs = 0
    /\ InitOthers

(***************************************************************************)
(* DefaultAgent.run up to the loop.                                        *)
(***************************************************************************)
\* a variant that appends the prompts the other way round
OpeningSwapped ==
    <<Msg("user", Rendered("instance_template", <<>>, <<>>, NoneV, NoneV)),
      Msg("system", Rendered("system_template", <<>>, <<>>, NoneV, NoneV))>>

\* the two messages run() appends to the emptied list
Opening ==
    <<Msg("system", Rendered("system_template", <<>>, <<>>, NoneV, NoneV)),
      Msg("user", Rendered("instance_template", <<>>, <<>>, NoneV, NoneV))>>

\* ExperimentMixin.run, then DefaultAgent.run up to the loop: the initial
\* analysis adds what the advanced model's call cost to model.cost
Run ==
    /\ \E delta \in (IF initial_analysis /\ advanced_model THEN ConsultCosts ELSE {0}) :
          cost' = cost + delta
    /\ messages' = Opening
    /\ runs' = runs + 1
    /\ pc' = "step"
    /\ UNCHANGED <<step_limit, cost_limit, n_calls, response, action, proc,
                   output, exit_status, result, adapter, mixin, sandbox,
                   others, executions>>

RunStart ==
    /\ pc = "idle"
    /\ Run
    /\ UNCHANGED <<exc, ret>>

\* run() called again on the agent that has returned
RunAgain ==
    /\ pc = "returned"
    /\ runs < MaxRuns
    /\ Run
    /\ exc' = NoExc
    /\ ret' = NoExc

(***************************************************************************)
(* ExperimentMixin.step and the consultation of ExperimentMixin.           *)
(* execute_action.                                                         *)
(***************************************************************************)
\* a variant without the test n_calls > 0
ShouldRoutineConsultAtZero ==
    /\ consultation_strategy = "ROUTINE_ASK"
    /\ advanced_model
    /\ n_calls % routine_ask_interval = 0

\* should_routine_consult
ShouldRoutineConsult ==
    /\ consultation_strategy = "ROUTINE_ASK"
    /\ advanced_model
    /\ n_calls > 0
    /\ n_calls % routine_ask_interval = 0

\* a variant that puts the consultation in place of the last message
ConsultReplacesLast(type) ==
    \E o \in (IF advanced_model THEN ConsultOutcomes ELSE {NotConfigured}) :
       /\ cost' = cost + o.delta
       /\ consultation_count' =
             consultation_count + (IF o.kind = "response" THEN 1 ELSE 0)
       /\ messages' = [messages EXCEPT ![Len(messages)] =
                                          Msg("user", Consultation(type, o.kind))]

\* a variant that takes the cost of the consultation off
ConsultRefunds(type) ==
    \E o \in (IF advanced_model THEN ConsultOutcomes ELSE {NotConfigured}) :
       /\ cost' = cost - o.delta
       /\ consultation_count' =
             consultation_count + (IF o.kind = "response" THEN 1 ELSE 0)
       /\ messages' = Append(messages, Msg("user", Consultation(type, o.kind)))

\* a variant that counts every consultation, answered or not
ConsultCountsAll(type) ==
    \E o \in (IF advanced_model THEN ConsultOutcomes ELSE {NotConfigured}) :
       /\ cost' = cost + o.delta
       /\ consultation_count' = consultation_count + 1
       /\ messages' = Append(messages, Msg("user", Consultation(type, o.kind)))

\* consult_advanced_model and the add_message of its caller: the advice, or
\* the text that stands for it, becomes a user message; a response adds what
\* the call cost to model.cost
ConsultAdvancedModel(type) ==
    \E o \in (IF advanced_model THEN ConsultOutcomes ELSE {NotConfigured}) :
       /\ cost' = cost + o.delta
       /\ consultation_count' =
             consultation_count + (IF o.kind = "response" THEN 1 ELSE 0)
       /\ messages' = Append(messages, Msg("user", Consultation(type, o.kind)))

\* step(): the routine consultation before super().step()
RoutineConsult ==
    /\ pc = "step"
    /\ ShouldRoutineConsult
    /\ ConsultAdvancedModel("routine")
    /\ pc' = "query"
    /\ UNCHANGED <<step_limit, cost_limit, n_calls, response, action, proc, output,
                   exc, ret, exit_status, result, adapter, consultation_strategy,
                   routine_ask_interval, advanced_model, initial_analysis, sandbox,
                   runs,
                   others, executions>>

\* execute_action: the consultation the command asked for, before
\* get_observation appends the observation
Consult ==
    /\ pc = "consult"
    /\ ConsultAdvancedModel("on_demand")
    /\ pc' = "observe"
    /\ UNCHANGED <<step_limit, cost_limit, n_calls, response, action, proc, output,
                   exc, ret, exit_status, result, adapter, consultation_strategy,
                   routine_ask_interval, advanced_model, initial_analysis, sandbox,
                   runs,
                   others, executions>>

(***************************************************************************)
(* DefaultAgent.query.                                                     *)
(***************************************************************************)
\* variants of the limits test: one call late, a ceiling of 0 taken as a
\* ceiling, no test at all
LimitsReachedLate ==
    \/ (0 < step_limit /\ step_limit < n_calls)
    \/ (0 < cost_limit /\ cost_limit <= cost)
LimitsReachedAtZero == step_limit <= n_calls \/ cost_limit <= cost
LimitsNeverReached == FALSE

\* 0 < step_limit <= n_calls or 0 < cost_limit <= cost
LimitsReached ==
    \/ (0 < step_limit /\ step_limit <= n_calls)
    \/ (0 < cost_limit /\ cost_limit <= cost)

\* the limits test; past it the adapter is called
QueryCheck ==
    /\ pc = "query" \/ (pc = "step" /\ ~ShouldRoutineConsult)
    /\ IF LimitsReached
       THEN /\ exc' = Raise("LimitsExceeded", Raw(<<>>))
            /\ pc' = "except"
            /\ UNCHANGED <<attempts, failure>>
       ELSE /\ n_calls < MaxCalls
            /\ pc' = "model"
            /\ attempts' = 0
            /\ failure' = "none"
            /\ UNCHANGED exc
    /\ UNCHANGED <<messages, step_limit, cost_limit, n_calls, cost, response, action,
                   proc, output, ret, exit_status, result, previous_response_id,
                   provider, sent, mixin, sandbox, runs,
                   others, executions>>

\* model.query returns: the adapter counts the call and its cost, query()
\* appends the assistant message
\* the id is what getattr(resp, "id", None) gives
ModelReturnWith(Responses, Costs, Ids, Fields) ==
    /\ pc = "model"
    /\ \E content \in Responses, delta \in Costs, id \in Ids, fields \in Fields :
          /\ n_calls' = n_calls + 1
          /\ cost' = cost + delta
          /\ response' = content
          /\ extra_fields' = fields
          /\ provider' = (IF previous_response_id = "None" THEN <<>> ELSE provider)
                         \o Input(messages, previous_response_id)
                         \o <<Clean(Assistant(Raw(content)))>>
          /\ previous_response_id' = id
          /\ IF "role" \in DOMAIN fields
             THEN /\ exc' = Raise("TypeError", Raw(<<"role">>))
                  /\ pc' = "except"
                  /\ UNCHANGED messages
             ELSE /\ messages' = Append(messages, AddMessage("assistant", Raw(content), fields))
                  /\ pc' = "parse"
                  /\ UNCHANGED exc
    /\ sent' = Input(messages, previous_response_id)
    /\ attempts' = attempts + 1
    /\ UNCHANGED <<step_limit, cost_limit, action, proc, output, ret,
                   exit_status, result, failure, mixin, sandbox, runs,
                   provision, concurrent, tool, executions>>

\* the fields LitellmResponseAPIModel.query returns besides content
AdapterFields == [extra |-> "response"]

\* a provider whose responses carry an id
ModelReturn(Responses, Costs) ==
    ModelReturnWith(Responses, Costs, {"resp"}, {AdapterFields})

\* a variant that stops one attempt late
StopLate(attempt_number) == attempt_number > MaxAttempts

\* stop_after_attempt
StopAfterAttempt(attempt_number) == attempt_number >= MaxAttempts

\* a provider call fails: _query is called again unless the class is
\* listed or the attempt was the last one, and then the failure is raised
ModelFail(Kinds) ==
    /\ pc = "model"
    /\ \E kind \in Kinds :
          /\ failure' = kind
          /\ IF Retries(kind) /\ ~StopAfterAttempt(attempts + 1)
             THEN UNCHANGED <<pc, exc>>
             ELSE /\ exc' = Raise(kind, Raw(<<kind>>))
                  /\ pc' = "except"
    /\ sent' = Input(messages, previous_response_id)
    /\ attempts' = attempts + 1
    /\ UNCHANGED <<messages, step_limit, cost_limit, n_calls, cost, response, action,
                   proc, output, ret, exit_status, result, previous_response_id,
                   provider, mixin, sandbox, runs,
                   others, executions>>

\* model.query raises
ModelRaise == ModelFail(ModelErrors)

\* a failure of any class
ModelRetry == ModelFail(NonRetryable \cup TransientErrors)

\* a response without an id
ModelReturnNoId(Responses, Costs) ==
    ModelReturnWith(Responses, Costs, {"None"}, {AdapterFields})

(***************************************************************************)
(* The responses the model client is made to give.                         *)
(***************************************************************************)
\* a response whose only content is one fenced command
OneCommand == <<FENCE, BASH, NL, WORD, NL, FENCE>>

\* a scripted model: one command, a command with text and blanks around it,
\* no command, two commands
SampleResponses ==
    { OneCommand,
      <<WORD, NL, FENCE, BASH, SP, NL, SP, WORD, SP, NL, FENCE, NL>>,
      <<WORD>>,
      OneCommand \o <<NL>> \o OneCommand }

\* responses put together from up to MaxSegs pieces: whole fenced blocks
\* (plain, blank, padded) and the tokens they are made of
Segments ==
    { OneCommand,
      <<FENCE, BASH, NL, NL, FENCE>>,
      <<FENCE, BASH, SP, NL, SP, WORD, SP, WORD, NL, FENCE>>,
      <<FENCE, BASH>>,
      <<FENCE>>,
      <<BASH>>,
      <<NL>>,
      <<SP>>,
      <<WORD>> }

GenResponses == {Flatten(ss) : ss \in SeqsUpTo(Segments, MaxSegs)}

(***************************************************************************)
(* DefaultAgent.parse_action.                                              *)
(***************************************************************************)
\* a variant that returns the captured group as it is
ParseActionUntrimmed(content) ==
    LET actions == FindAll(content, 1)
    IN IF Len(actions) = 1
       THEN [ok |-> TRUE, action |-> actions[1], actions |-> actions]
       ELSE [ok |-> FALSE, action |-> <<>>, actions |-> actions]

ParseAction(content) ==
    LET actions == FindAll(content, 1)
    IN IF Len(actions) = 1
       THEN [ok |-> TRUE, action |-> Strip(actions[1]), actions |-> actions]
       ELSE [ok |-> FALSE, action |-> <<>>, actions |-> actions]

\* parse_action on each response the model client can give
Parsed == [content \in SampleResponses \cup GenResponses |-> ParseAction(content)]

\* a variant that appends the observation without running the command
ParseThenObserve ==
    /\ pc = "parse"
    /\ action' = Parsed[response].action
    /\ pc' = IF Parsed[response].ok THEN "observe" ELSE "step"
    /\ UNCHANGED <<messages, step_limit, cost_limit, n_calls, cost, response, proc,
                   output, exc, ret, exit_status, result, adapter, mixin, sandbox,
                   runs, others, executions>>

Parse ==
    /\ pc = "parse"
    /\ \E r \in {Parsed[response]} :
          IF r.ok
          THEN /\ action' = IF "action" \in DOMAIN extra_fields
                              THEN extra_fields.action ELSE r.action
               /\ pc' = "execute"
               /\ UNCHANGED exc
          ELSE /\ exc' = Raise("FormatError",
                               Rendered("format_error_template", <<>>, r.actions,
                                        NoneV, NoneV))
               /\ pc' = "except"
               /\ UNCHANGED action
    /\ UNCHANGED <<messages, step_limit, cost_limit, n_calls, cost, response, proc,
                   output, ret, exit_status, result,
                   adapter, mixin, sandbox, runs,
                   others, executions>>

(***************************************************************************)
(* DefaultAgent.execute_action with DockerEnvironmentCam.execute.          *)
(***************************************************************************)
\* a variant that drops what was captured
TimeoutOutputDropped(p) == <<>>

\* the output attached to a timeout: e.output decoded, "" when it is None
\* or empty
TimeoutOutput(p) == IF p.captured /\ p.stdout # <<>> THEN p.stdout ELSE <<>>

Execute(Outcomes) ==
    /\ pc = "execute"
    /\ \E o \in Outcomes :
          /\ proc' = [o EXCEPT !.cmd = action,
                               !.envargs = EnvArgs(forward_env, env, host_env)]
          /\ CASE o.kind = "timeout" ->
                    /\ exc' = Raise("ExecutionTimeoutError",
                                    Rendered("timeout_template", action, <<>>,
                                             StrV(TimeoutOutput(o)), NoneV))
                    /\ pc' = "except"
                    /\ UNCHANGED output
               [] o.kind = "exit" ->
                    LET res == ExecuteResult(o.stdout, o.returncode)
                        fin == HasFinished(res.output)
                    IN /\ output' = res
                       /\ IF fin.raises = "none"
                          THEN /\ pc' = IF /\ consultation_strategy = "ASK_BY_AGENT"
                                           /\ CheckAdvancedModelRequest(res.output)
                                        THEN "consult" ELSE "observe"
                               /\ UNCHANGED exc
                          ELSE /\ exc' = Raise(fin.raises,
                                               IF fin.raises = "Submitted"
                                               THEN Raw(fin.payload)
                                               ELSE Raw(<<fin.raises>>))
                               /\ pc' = "except"
               [] OTHER ->
                    /\ exc' = Raise(o.kind, Raw(<<o.kind>>))
                    /\ pc' = "except"
                    /\ UNCHANGED output
    /\ executions' = executions + 1
    /\ UNCHANGED <<messages, step_limit, cost_limit, n_calls, cost, response, action,
                   ret, exit_status, result, adapter, mixin, sandbox, runs,
                   others>>

(***************************************************************************)
(* DefaultAgent.get_observation after execute_action returned.             *)
(***************************************************************************)
Observe ==
    /\ pc = "observe"
    /\ messages' = Append(messages,
                          Msg("user", Rendered("action_observation_template", action,
                                               <<>>, output.output, output.returncode)))
    /\ pc' = "step"
    /\ UNCHANGED <<step_limit, cost_limit, n_calls, cost, response, action, proc,
                   output, exc, ret, exit_status, result,
                   adapter, mixin, sandbox, runs,
                   others, executions>>

(***************************************************************************)
(* The except clauses of DefaultAgent.run.                                 *)
(***************************************************************************)
\* a variant that treats a recoverable condition like a terminating one
HandleNonTerminatingReturns ==
    /\ pc = "except"
    /\ exc.kind \in NonTerminatingKinds
    /\ messages' = Append(messages, Msg("user", exc.text))
    /\ ret' = exc
    /\ pc' = "returned"
    /\ UNCHANGED <<step_limit, cost_limit, n_calls, cost, response, action, proc,
                   output, exc, exit_status, result,
                   adapter, mixin, sandbox, runs,
                   others, executions>>

HandleNonTerminating ==
    /\ pc = "except"
    /\ exc.kind \in NonTerminatingKinds
    /\ messages' = Append(messages, Msg("user", exc.text))
    /\ pc' = "step"
    /\ UNCHANGED <<step_limit, cost_limit, n_calls, cost, response, action, proc,
                   output, exc, ret, exit_status, result,
                   adapter, mixin, sandbox, runs,
                   others, executions>>

\* a variant that returns without appending the exit message
HandleTerminatingSilent ==
    /\ pc = "except"
    /\ exc.kind \in TerminatingKinds
    /\ ret' = exc
    /\ pc' = "returned"
    /\ UNCHANGED <<messages, step_limit, cost_limit, n_calls, cost, response, action,
                   proc, output, exc, exit_status, result,
                   adapter, mixin, sandbox, runs,
                   others, executions>>

HandleTerminating ==
    /\ pc = "except"
    /\ exc.kind \in TerminatingKinds
    /\ messages' = Append(messages, Msg("user", exc.text))
    /\ ret' = exc
    /\ pc' = "returned"
    /\ UNCHANGED <<step_limit, cost_limit, n_calls, cost, response, action, proc,
                   output, exc, exit_status, result,
                   adapter, mixin, sandbox, runs,
                   others, executions>>

\* any other exception leaves run()
Propagate ==
    /\ pc = "except"
    /\ exc.kind \notin NonTerminatingKinds \cup TerminatingKinds
    /\ pc' = "raised"
    /\ UNCHANGED <<messages, step_limit, cost_limit, n_calls, cost, response, action,
                   proc, output, exc, ret, exit_status, result,
                   adapter, mixin, sandbox, runs,
                   others, executions>>

(***************************************************************************)
(* main of swebench_single_exp.py around agent.run.                        *)
(***************************************************************************)
MainReturn ==
    /\ pc = "returned"
    /\ exit_status' = ret.kind
    /\ result' = ret.text
    /\ pc' = "saved"
    /\ UNCHANGED <<messages, step_limit, cost_limit, n_calls, cost, response, action,
                   proc, output, exc, ret,
                   adapter, mixin, sandbox, runs,
                   others, executions>>

\* a variant that records the kind and leaves the message out
MainExceptNoResult ==
    /\ pc = "raised"
    /\ IsException(exc.kind)
    /\ exit_status' = exc.kind
    /\ pc' = "saved"
    /\ UNCHANGED <<messages, step_limit, cost_limit, n_calls, cost, response, action,
                   proc, output, exc, ret, result,
                   adapter, mixin, sandbox, runs,
                   others, executions>>

\* except Exception as e
MainExcept ==
    /\ pc = "raised"
    /\ IsException(exc.kind)
    /\ exit_status' = exc.kind
    /\ result' = exc.text
    /\ pc' = "saved"
    /\ UNCHANGED <<messages, step_limit, cost_limit, n_calls, cost, response, action,
                   proc, output, exc, ret,
                   adapter, mixin, sandbox, runs,
                   others, executions>>

\* an exception that is no Exception passes the except clause: the finally
\* clause saves the trajectory with exit_status and result still None
MainFinally ==
    /\ pc = "raised"
    /\ ~IsException(exc.kind)
    /\ pc' = "saved_raising"
    /\ UNCHANGED <<messages, step_limit, cost_limit, n_calls, cost, response, action,
                   proc, output, exc, ret, exit_status, result,
                   adapter, mixin, sandbox, runs,
                   others, executions>>

Loop(Responses, Costs, Outcomes) ==
    \/ RunStart
    \/ QueryCheck
    \/ ModelReturn(Responses, Costs)
    \/ ModelRaise
    \/ Parse
    \/ Execute(Outcomes)
    \/ Observe
    \/ HandleNonTerminating
    \/ HandleTerminating
    \/ Propagate
    \/ MainReturn
    \/ MainExcept
    \/ MainFinally

(***************************************************************************)
(* The costs of the model calls and the outcomes of the sandbox commands.   *)
(***************************************************************************)
SampleCosts == {0, 1}

Member(k, v) == [k |-> k, v |-> v]

\* a faked sandbox: ordinary output, the sentinel with a deliverable (also
\* from a command that exits non-zero), an envelope, an envelope whose
\* output is no string, a timeout with and without captured output, a
\* container tool that cannot be run
SampleOutcomes ==
    { Exit(GenText(<<WORD, NL>>), 0),
      Exit(GenText(<<SENT1, NL, WORD, NL>>), 0),
      Exit(GenText(<<SENT2, NL, WORD>>), 1),
      Exit(GenObj(<<>>, <<Member(<<KOUTPUT>>, StrV(<<WORD>>)),
                         Member(<<KRETURNCODE>>, NumV(3))>>, <<NL>>), 0),
      Exit(GenObj(<<>>, <<Member(<<KOUTPUT>>, NumV(3)),
                         Member(<<KRETURNCODE>>, NoneV)>>, <<NL>>), 0),
      TimedOut(<<WORD>>, TRUE),
      TimedOut(<<>>, FALSE),
      Failed("OSError") }

\* command outputs: every text of up to MaxOutLen tokens, and JSON values
\* with up to MaxPairs members, whole, padded, cut short or followed by text
OutAlphabet == {NL, SP, WORD, SENT1, SENT2}
Texts == SeqsUpTo(OutAlphabet, MaxOutLen)
Keys == {<<KOUTPUT>>, <<KRETURNCODE>>, <<WORD>>}
JVals == {StrV(<<WORD>>), StrV(<<SENT1, NL, WORD>>), NumV(3), NoneV}
Members == {Member(k, v) : k \in Keys, v \in JVals}
DistinctKeys(p) == \A a, b \in 1..Len(p) : a # b => p[a].k # p[b].k
Objects == {p \in SeqsUpTo(Members, MaxPairs) : DistinctKeys(p)}
SmallObjects == {p \in Objects : Len(p) <= 2}

Gens ==
    {GenText(t) : t \in Texts}
    \cup {GenObj(pre, p, post) : pre \in {<<>>, <<SP>>}, p \in Objects,
                                 post \in {<<>>, <<NL>>}}
    \cup {Gen("scalar", pre, <<>>, v, post, 0) : pre \in {<<>>, <<SP>>}, v \in JVals,
                                                 post \in {<<>>, <<NL>>}}
    \cup {Gen("array", <<>>, p, NoneV, <<>>, 0) : p \in SmallObjects}
    \cup UNION {{Gen("prefix", <<>>, p, NoneV, <<>>, c) : c \in 0..(Len(SerObj(p)) - 1)}
                : p \in SmallObjects}
    \cup {Gen("suffixed", <<>>, p, NoneV, <<WORD>>, 0) : p \in SmallObjects}

GenOutcomes ==
    {Exit(g, rc) : g \in Gens, rc \in {0, 1}}
    \cup {TimedOut(<<WORD>>, TRUE), Failed("OSError")}

\* a small sandbox for the runs that vary the model's responses
FewOutcomes ==
    { Exit(GenText(<<WORD, NL>>), 0),
      Exit(GenText(<<SENT1, NL, WORD, NL>>), 0),
      TimedOut(<<WORD>>, TRUE),
      Failed("OSError") }

(***************************************************************************)
(* Specifications.                                                         *)
(***************************************************************************)
\* the loop with a scripted model and a faked sandbox
Next == Loop(SampleResponses, SampleCosts, SampleOutcomes)
Spec == Init /\ [][Next]_vars

\* one step of the loop on every generated response
InitOneStep == Init /\ step_limit = 1 /\ cost_limit = 0
NextParse == Loop(GenResponses, {0}, FewOutcomes)
SpecParse == InitOneStep /\ [][NextParse]_vars

\* one step of the loop on every generated command output
NextSandbox == Loop({OneCommand}, {0}, GenOutcomes)
SpecSandbox == InitOneStep /\ [][NextSandbox]_vars

\* the loop under a step ceiling, every enabled step eventually taken: the
\* calls run() makes block until they return or fail
InitLive == Init /\ step_limit > 0
NextLive == Loop({OneCommand, <<WORD>>}, SampleCosts, FewOutcomes)
SpecLive == InitLive /\ [][NextLive]_vars /\ WF_vars(NextLive)

\* commands that ask for the advanced model, among others
ConsultSandbox ==
    { Exit(GenText(<<WORD, NL>>), 0),
      Exit(GenText(<<SP, ASK, SP, NL, WORD>>), 0),
      Exit(GenText(<<SENT1, NL, ASK>>), 0),
      TimedOut(<<>>, FALSE) }

\* the loop of the experiment agent under every consultation setting, run()
\* called up to MaxRuns times
InitConsult ==
    /\ pc = "idle"
    /\ messages = <<>>
    /\ step_limit \in 0..MaxStepLimit
    /\ cost_limit \in 0..MaxCostLimit
    /\ n_calls = 0
    /\ cost = 0
    /\ response = <<>>
    /\ action = <<>>
    /\ proc = NoProc
    /\ output = NoOutput
    /\ exc = NoExc
    /\ ret = NoExc
    /\ exit_status = "None"
    /\ result = Raw(<<>>)
    /\ previous_response_id = "None"
    /\ provider = <<>>
    /\ sent = <<>>
    /\ attempts = 0
    /\ failure = "none"
    /\ consultation_strategy \in {"ASK_BY_AGENT", "ROUTINE_ASK"}
    /\ routine_ask_interval \in 1..MaxInterval
    /\ advanced_model \in BOOLEAN
    /\ initial_analysis \in BOOLEAN
    /\ consultation_count = 0
    /\ forward_env = <<>>
    /\ env = MergeDicts(utf8_env, <<>>)
    /\ host_env = [name \in VarNames |-> NoneV]
    /\ runs = 0
    /\ InitOthers
NextConsult ==
    \/ Loop({OneCommand, <<WORD>>}, SampleCosts, ConsultSandbox)
    \/ RoutineConsult
    \/ Consult
    \/ RunAgain
SpecConsult == InitConsult /\ [][NextConsult]_vars

\* the adapter with provider calls that fail, every enabled step eventually
\* taken
NextAdapter ==
    \/ Loop({OneCommand, <<WORD>>}, SampleCosts, FewOutcomes)
    \/ ModelRetry
    \/ ModelReturnNoId({OneCommand, <<WORD>>}, SampleCosts)
SpecAdapter == InitLive /\ [][NextAdapter]_vars /\ WF_vars(NextAdapter)

\* one step of the loop under every drawn forward_env, env and host
\* environment
UserEnvs ==
    {d \in SeqsUpTo({EnvVar(name, StrV(<<"conf">>)) : name \in VarNames},
                  Cardinality(VarNames)) :
        \A a, b \in 1..Len(d) : a # b => d[a].k # d[b].k}
InitEnv ==
    /\ pc = "idle"
    /\ messages = <<>>
    /\ step_limit = 1
    /\ cost_limit = 0
    /\ n_calls = 0
    /\ cost = 0
    /\ response = <<>>
    /\ action = <<>>
    /\ proc = NoProc
    /\ output = NoOutput
    /\ exc = NoExc
    /\ ret = NoExc
    /\ exit_status = "None"
    /\ result = Raw(<<>>)
    /\ previous_response_id = "None"
    /\ provider = <<>>
    /\ sent = <<>>
    /\ attempts = 0
    /\ failure = "none"
    /\ consultation_strategy = "ASK_BY_AGENT"
    /\ routine_ask_interval = 1
    /\ advanced_model = FALSE
    /\ initial_analysis = FALSE
    /\ consultation_count = 0
    /\ forward_env \in SeqsUpTo(VarNames, MaxForward)
    /\ \E user \in UserEnvs : env = MergeDicts(utf8_env, user)
    /\ host_env \in [VarNames -> {NoneV, StrV(<<>>), StrV(<<"host">>)}]
    /\ runs = 0
    /\ InitOthers
NextEnv == Loop({OneCommand}, {0}, FewOutcomes)
SpecEnv == InitEnv /\ [][NextEnv]_vars

(***************************************************************************)
(* The life of a DockerEnvironmentCam: construction and cleanup.           *)
(***************************************************************************)
\* a variant that tries docker run again after a failure
StartContainerRetries ==
    /\ pc = "new"
    /\ \E o \in {"started", "CalledProcessError", "TimeoutExpired", "OSError"} :
          /\ docker_run' = Append(docker_run,
                                  [envargs |-> StartArgs(forward_env, env, host_env),
                                   outcome |-> o])
          /\ IF o = "started"
             THEN container_id' = "cid" /\ pc' = "setup" /\ UNCHANGED exc
             ELSE IF Len(docker_run) = 0
             THEN UNCHANGED <<container_id, pc, exc>>
             ELSE /\ exc' = Raise(o, Raw(<<o>>))
                  /\ pc' = "construction_failed"
                  /\ UNCHANGED container_id
    /\ UNCHANGED <<messages, step_limit, cost_limit, n_calls, cost, response, action,
                   proc, output, ret, exit_status, result, adapter, mixin, sandbox,
                   runs, executions, extra_fields, cleanups, concurrent, tool>>

\* __init__ calls _start_container: one docker run with check=True and the
\* pull timeout; the id is recorded when it returned, a failure leaves
\* __init__
StartContainer ==
    /\ pc = "new"
    /\ \E o \in {"started", "CalledProcessError", "TimeoutExpired", "OSError"} :
          /\ docker_run' = Append(docker_run,
                                  [envargs |-> StartArgs(forward_env, env, host_env),
                                   outcome |-> o])
          /\ IF o = "started"
             THEN container_id' = "cid" /\ pc' = "setup" /\ UNCHANGED exc
             ELSE /\ exc' = Raise(o, Raw(<<o>>))
                  /\ pc' = "construction_failed"
                  /\ UNCHANGED container_id
    /\ UNCHANGED <<messages, step_limit, cost_limit, n_calls, cost, response, action,
                   proc, output, ret, exit_status, result, adapter, mixin, sandbox,
                   runs, executions, extra_fields, cleanups, concurrent, tool>>

\* _setup_pytest: commands run through execute; a command that cannot be
\* run or runs out of time leaves __init__
SetupPytest ==
    /\ pc = "setup"
    /\ \E o \in {Exit(GenText(<<WORD, NL>>), 0), Exit(GenText(<<>>), 1),
                  TimedOut(<<>>, FALSE), Failed("OSError")} :
          /\ proc' = [o EXCEPT !.cmd = <<"pytest">>,
                               !.envargs = EnvArgs(forward_env, env, host_env)]
          /\ IF o.kind = "exit"
             THEN pc' = "idle" /\ UNCHANGED exc
             ELSE /\ exc' = Raise(IF o.kind = "timeout" THEN "TimeoutExpired" ELSE o.kind,
                                  Raw(<<o.kind>>))
                  /\ pc' = "construction_failed"
    /\ UNCHANGED <<messages, step_limit, cost_limit, n_calls, cost, response, action,
                   output, ret, exit_status, result, adapter, mixin, sandbox,
                   runs, executions, extra_fields, provision, concurrent, tool>>

\* cleanup (also from __del__): with a container id a shell is started in
\* the background and not waited for, without one nothing is done
Cleanup ==
    /\ pc # "new"
    /\ Len(cleanups) < MaxCleanups
    /\ cleanups' = Append(cleanups,
                          [phase |-> IF container_id # "None" THEN "stop" ELSE "none",
                           stop |-> "pending", rm |-> FALSE])
    /\ UNCHANGED <<pc, messages, step_limit, cost_limit, n_calls, cost, response,
                   action, proc, output, exc, ret, exit_status, result, adapter, mixin,
                   sandbox, runs, executions, extra_fields, container_id, docker_run,
                   concurrent, tool>>

\* a variant of the shell command with ; in place of ||
ShellStepAlwaysRemoves ==
    /\ \E i \in 1..Len(cleanups) :
          \/ /\ cleanups[i].phase = "stop"
             /\ \E r \in {"stopped", "failed", "timed_out"} :
                   cleanups' = [cleanups EXCEPT ![i].stop = r, ![i].phase = "rm"]
          \/ /\ cleanups[i].phase = "rm"
             /\ cleanups' = [cleanups EXCEPT ![i].rm = TRUE, ![i].phase = "done"]
    /\ UNCHANGED <<pc, messages, step_limit, cost_limit, n_calls, cost, response,
                   action, proc, output, exc, ret, exit_status, result, adapter, mixin,
                   sandbox, runs, executions, extra_fields, container_id, docker_run,
                   concurrent, tool>>

\* the background shell: (timeout 60 docker stop id || docker rm -f id) &
ShellStep ==
    /\ \E i \in 1..Len(cleanups) :
          \/ /\ cleanups[i].phase = "stop"
             /\ \E r \in {"stopped", "failed", "timed_out"} :
                   cleanups' = [cleanups EXCEPT ![i].stop = r,
                                               ![i].phase = IF r = "stopped"
                                                            THEN "done" ELSE "rm"]
          \/ /\ cleanups[i].phase = "rm"
             /\ cleanups' = [cleanups EXCEPT ![i].rm = TRUE, ![i].phase = "done"]
    /\ UNCHANGED <<pc, messages, step_limit, cost_limit, n_calls, cost, response,
                   action, proc, output, exc, ret, exit_status, result, adapter, mixin,
                   sandbox, runs, executions, extra_fields, container_id, docker_run,
                   concurrent, tool>>

\* an environment under construction, with names forwarded and set
InitProvision ==
    /\ pc = "new"
    /\ messages = <<>>
    /\ step_limit = 1
    /\ cost_limit = 0
    /\ n_calls = 0
    /\ cost = 0
    /\ response = <<>>
    /\ action = <<>>
    /\ proc = NoProc
    /\ output = NoOutput
    /\ exc = NoExc
    /\ ret = NoExc
    /\ exit_status = "None"
    /\ result = Raw(<<>>)
    /\ previous_response_id = "None"
    /\ provider = <<>>
    /\ sent = <<>>
    /\ attempts = 0
    /\ failure = "none"
    /\ consultation_strategy = "ASK_BY_AGENT"
    /\ routine_ask_interval = 1
    /\ advanced_model = FALSE
    /\ initial_analysis = FALSE
    /\ consultation_count = 0
    /\ forward_env \in {<<>>, <<"TOKEN">>, <<"LANG", "TOKEN">>}
    /\ \E user \in {<<>>, <<EnvVar("LANG", StrV(<<"conf">>))>>} :
          env = MergeDicts(utf8_env, user)
    /\ host_env \in [VarNames -> {NoneV, StrV(<<"host">>)}]
    /\ runs = 0
    /\ executions = 0
    /\ extra_fields = [extra |-> "response"]
    /\ container_id = "None"
    /\ docker_run = <<>>
    /\ cleanups = <<>>
    /\ advanced = [n_calls |-> 0, cost |-> 0]
    /\ threads = <<>>
    /\ file = NoFile
    /\ call = NoCall
NextProvision ==
    \/ StartContainer
    \/ SetupPytest
    \/ Cleanup
    \/ ShellStep
SpecProvision == InitProvision /\ [][NextProvision]_vars

(***************************************************************************)
(* The threads of call_advanced_model_with_timeout inside the query() of   *)
(* the advanced model's adapter.  self.n_calls += 1 and self.cost += cost  *)
(* are each a read of the attribute followed by a write, with no lock.     *)
(***************************************************************************)
\* everything but the advanced model's adapter and its threads
agent == <<pc, messages, step_limit, cost_limit, n_calls, cost, response, action,
           proc, output, exc, ret, exit_status, result, adapter, mixin, sandbox,
           runs, executions, extra_fields, provision, tool>>

\* a consultation reads the advanced model's cost and starts a daemon thread
\* that calls query(); the main thread starts the next one only when it is
\* back from the one before: with its response, or with the join timed out
Spawn ==
    /\ Len(threads) < MaxThreads
    /\ \A t \in 1..Len(threads) : threads[t].returned \/ ~threads[t].joined
    /\ threads' = Append(threads, [at |-> "provider", reg |-> 0, delta |-> 0,
                                   joined |-> TRUE, returned |-> FALSE,
                                   cost_before |-> advanced.cost])
    /\ UNCHANGED <<advanced, agent>>

\* thread.join(timeout) returns with the thread ended: the caller adds what
\* the advanced model's cost has grown by to model.cost;
\* consult_advanced_model also counts the consultation, get_initial_analysis
\* does not
JoinReturn ==
    /\ \E t \in 1..Len(threads) :
          /\ threads[t].at = "done"
          /\ threads[t].joined
          /\ ~threads[t].returned
          /\ cost' = cost + (advanced.cost - threads[t].cost_before)
          /\ threads' = [threads EXCEPT ![t].returned = TRUE]
    /\ \E counted \in {0, 1} : consultation_count' = consultation_count + counted
    /\ UNCHANGED <<pc, messages, step_limit, cost_limit, n_calls, response, action,
                   proc, output, exc, ret, exit_status, result, adapter,
                   consultation_strategy, routine_ask_interval, advanced_model,
                   initial_analysis, sandbox, runs, executions, extra_fields,
                   provision, tool, advanced>>

\* thread.join(timeout) returns with the thread alive
JoinTimeout ==
    /\ \E t \in 1..Len(threads) :
          /\ threads[t].at # "done"
          /\ threads[t].joined
          /\ threads' = [threads EXCEPT ![t].joined = FALSE]
    /\ UNCHANGED <<advanced, agent>>

\* one thread inside query(): the response arrives with its cost, then
\* n_calls is read and written, then cost is read and written
QueryThread ==
    /\ \E t \in 1..Len(threads) :
          CASE threads[t].at = "provider" ->
                 /\ \E d \in ConsultCosts :
                       threads' = [threads EXCEPT ![t].at = "load_calls", ![t].delta = d]
                 /\ UNCHANGED advanced
            [] threads[t].at = "load_calls" ->
                 /\ threads' = [threads EXCEPT ![t].at = "store_calls",
                                               ![t].reg = advanced.n_calls]
                 /\ UNCHANGED advanced
            [] threads[t].at = "store_calls" ->
                 /\ advanced' = [advanced EXCEPT !.n_calls = threads[t].reg + 1]
                 /\ threads' = [threads EXCEPT ![t].at = "load_cost"]
            [] threads[t].at = "load_cost" ->
                 /\ threads' = [threads EXCEPT ![t].at = "store_cost",
                                               ![t].reg = advanced.cost]
                 /\ UNCHANGED advanced
            [] threads[t].at = "store_cost" ->
                 /\ advanced' = [advanced EXCEPT !.cost = threads[t].reg + threads[t].delta]
                 /\ threads' = [threads EXCEPT ![t].at = "done"]
            [] OTHER -> FALSE
    /\ UNCHANGED agent

NextThreads ==
    \/ Spawn
    \/ JoinTimeout
    \/ JoinReturn
    \/ QueryThread
SpecThreads == Init /\ [][NextThreads]_vars

(***************************************************************************)
(* The loop around a model whose responses carry other fields than the     *)
(* content: query() hands them to add_message, parse_action merges them    *)
(* into the action.                                                        *)
(***************************************************************************)
ResponseFields ==
    { [extra |-> "other"],
      [extra |-> "response", usage |-> "tokens"],
      [extra |-> "response", action |-> <<WORD, SP, WORD>>],
      [extra |-> "response", role |-> "user"] }
ModelReturnFields ==
    ModelReturnWith({OneCommand, <<WORD>>}, {0}, {"resp"}, ResponseFields)
NextFields ==
    \/ Loop({OneCommand, <<WORD>>}, {0}, FewOutcomes)
    \/ ModelReturnFields
SpecFields == Init /\ [][NextFields]_vars

(***************************************************************************)
(* run() with a two-step scripted model and a faked sandbox: the first     *)
(* command prints ordinary text, the second prints a submission sentinel   *)
(* followed by the deliverable.                                            *)
(***************************************************************************)
ScriptResponses == {OneCommand, <<WORD>> \o OneCommand}
Deliverables == {<<WORD>>, <<WORD, NL>>, <<WORD, NL, SP, WORD, NL>>}
OrdinaryOutcomes ==
    {Exit(GenText(t), rc) : t \in {<<WORD, NL>>, <<WORD, SP, SENT1, NL>>}, rc \in {0, 1}}
SubmittingOutcomes ==
    {Exit(GenText(s \o <<NL>> \o d), 0) : s \in Sentinels, d \in Deliverables}
ScriptOutcomes == IF n_calls = 1 THEN OrdinaryOutcomes ELSE SubmittingOutcomes
InitScript == Init /\ step_limit # 1 /\ cost_limit = 0
NextScript ==
    \/ RunStart
    \/ QueryCheck
    \/ ModelReturn(ScriptResponses, SampleCosts)
    \/ Parse
    \/ Execute(ScriptOutcomes)
    \/ Observe
    \/ HandleTerminating
SpecScript == InitScript /\ [][NextScript]_vars

(***************************************************************************)
(* code_replace of run/extra/tools.py.  The content of a file is a         *)
(* sequence of tokens as it is on disk; CR is a carriage return.           *)
(***************************************************************************)
\* lines a drawn file has at most
MaxLine == 3
CR == "\r"

\* reading in text mode without a newline argument: "\r\n" and "\r" come
\* back as "\n"
RECURSIVE Universal(_)
Universal(s) ==
    IF s = <<>> THEN <<>>
    ELSE IF Head(s) = CR
         THEN <<NL>> \o Universal(IF Len(s) > 1 /\ s[2] = NL
                                  THEN SubSeq(s, 3, Len(s)) ELSE Tail(s))
         ELSE <<Head(s)>> \o Universal(Tail(s))
\* a variant that reads the file as it is on disk
ReadLinesUntranslated(content) == SplitLines(content)
\* f.readlines()
ReadLines(content) == SplitLines(Universal(content))

\* new_code.split('\n')
RECURSIVE SplitNL(_)
SplitNL(s) ==
    LET B == {j \in 1..Len(s) : s[j] = NL}
    IN IF B = {} THEN <<s>>
       ELSE <<SubSeq(s, 1, Min(B) - 1)>> \o SplitNL(SubSeq(s, Min(B) + 1, Len(s)))
\* line.rstrip('\n')
RECURSIVE RStripNL(_)
RStripNL(s) ==
    IF s # <<>> /\ s[Len(s)] = NL THEN RStripNL(SubSeq(s, 1, Len(s) - 1)) ELSE s
\* _detect_indent: the whitespace a line starts with
DetectIndent(line) == SubSeq(line, 1, Len(line) - Len(LStrip(line)))
StartsWith(s, prefix) ==
    Len(prefix) <= Len(s) /\ SubSeq(s, 1, Len(prefix)) = prefix
Spaces(n) == [i \in 1..n |-> SP]

\* _adjust_indent: the shortest indent of the lines that are not blank is
\* replaced by target_indent, blank lines become "\n"
AdjustIndent(code_lines, target_indent) ==
    LET stripped == [i \in 1..Len(code_lines) |-> RStripNL(code_lines[i])]
        I == {i \in 1..Len(code_lines) : Strip(stripped[i]) # <<>>}
        width == [i \in I |-> Len(DetectIndent(stripped[i]))]
        min_indent ==
            IF I = {} THEN <<>>
            ELSE LET m == Min({width[i] : i \in I})
                 IN DetectIndent(stripped[Min({i \in I : width[i] = m})])
    IN [i \in 1..Len(code_lines) |->
          IF i \in I
          THEN (IF StartsWith(stripped[i], min_indent)
                THEN target_indent
                     \o SubSeq(stripped[i], Len(min_indent) + 1, Len(stripped[i]))
                ELSE target_indent \o LStrip(stripped[i])) \o <<NL>>
          ELSE <<NL>>]

\* the indents _try_replace_with_indent falls back to
FallbackSpaces == <<0, 4, 8, 12>>
\* what the syntax check of _validate_and_write says about a candidate
Verdicts == {"ok", "indent_error", "syntax_error", "timeout"}
\* the candidates _try_replace_with_indent hands to _do_replace, in order
Candidates(new_code_lines, target_indent) ==
    <<new_code_lines, AdjustIndent(new_code_lines, target_indent)>>
    \o [k \in 1..Len(FallbackSpaces) |->
          AdjustIndent(new_code_lines, Spaces(FallbackSpaces[k]))]
\* the candidate that is written, 0 if none is: the code as given; after an
\* indent error the adjusted code; after another one the first of the
\* fallbacks that passes
Accepted(lint) ==
    CASE lint[1] = "ok" -> 1
      [] lint[1] # "indent_error" -> 0
      [] lint[2] = "ok" -> 2
      [] lint[2] # "indent_error" -> 0
      [] OTHER -> LET P == {k \in 3..Len(lint) : lint[k] = "ok"}
                  IN IF P = {} THEN 0 ELSE Min(P)

\* code_replace: what it returns and what the file holds afterwards
CodeReplace(f, new_code, start_line, end_line, use_lint, lint) ==
    LET lines == ReadLines(f.content)
        failed == [returned |-> "False", file |-> f]
    IN IF ~f.exists THEN failed
       ELSE IF start_line < 1 \/ end_line < 1 THEN failed
       ELSE IF start_line > end_line THEN failed
       ELSE IF end_line > Len(lines) THEN failed
       ELSE LET split == SplitNL(new_code)
                new_code_lines == [i \in 1..Len(split) |-> split[i] \o <<NL>>]
                target_indent == DetectIndent(lines[start_line])
                written(c) == [returned |-> "True",
                               file |-> [f EXCEPT !.content =
                                           Flatten(SubSeq(lines, 1, start_line - 1) \o c
                                                   \o SubSeq(lines, end_line + 1, Len(lines)))]]
            IN IF ~use_lint
               THEN written(AdjustIndent(new_code_lines, target_indent))
               ELSE IF Accepted(lint) = 0 THEN failed
               ELSE written(Candidates(new_code_lines, target_indent)[Accepted(lint)])

\* the files and the arguments code_replace is called with
FileContents ==
    { <<>>,
      <<WORD, NL, SP, WORD, NL, WORD, NL>>,
      <<WORD, NL, WORD>>,
      <<NL, SP, WORD, NL>>,
      <<WORD, CR, NL, SP, WORD, CR, NL>> }
Files == {NoFile} \cup {[exists |-> TRUE, content |-> c] : c \in FileContents}
NewCodes ==
    {<<>>, <<WORD>>, <<SP, SP, WORD>>, <<SP, WORD, NL, SP, SP, WORD>>, <<WORD, NL>>}
\* the verdicts of one call's syntax checks: indent errors, then one other
\* verdict, then checks that pass
LintRuns ==
    {[k \in 1..(Len(FallbackSpaces) + 2) |->
         IF k <= j THEN "indent_error" ELSE IF k = j + 1 THEN v ELSE "ok"] :
       j \in 0..(Len(FallbackSpaces) + 2), v \in Verdicts}

CodeReplaceCall ==
    /\ call = NoCall
    /\ \E new_code \in NewCodes, start_line \in 0..(MaxLine + 1),
          end_line \in 0..(MaxLine + 1), use_lint \in BOOLEAN, lint \in LintRuns :
          LET r == CodeReplace(file, new_code, start_line, end_line, use_lint, lint)
          IN /\ file' = r.file
             /\ call' = [start_line |-> start_line, end_line |-> end_line,
                         new_code |-> new_code, use_lint |-> use_lint,
                         lint |-> IF use_lint THEN lint ELSE <<>>,
                         before |-> file, returned |-> r.returned]
    /\ UNCHANGED <<pc, messages, step_limit, cost_limit, n_calls, cost, response,
                   action, proc, output, exc, ret, exit_status, result, adapter,
                   mixin, sandbox, runs, executions, extra_fields, provision,
                   concurrent>>

InitTools ==
    /\ pc = "idle"
    /\ messages = <<>>
    /\ step_limit = 0
    /\ cost_limit = 0
    /\ n_calls = 0
    /\ cost = 0
    /\ response = <<>>
    /\ action = <<>>
    /\ proc = NoProc
    /\ output = NoOutput
    /\ exc = NoExc
    /\ ret = NoExc
    /\ exit_status = "None"
    /\ result = Raw(<<>>)
    /\ previous_response_id = "None"
    /\ provider = <<>>
    /\ sent = <<>>
    /\ attempts = 0
    /\ failure = "none"
    /\ consultation_strategy = "ASK_BY_AGENT"
    /\ routine_ask_interval = 1
    /\ advanced_model = FALSE
    /\ initial_analysis = FALSE
    /\ consultation_count = 0
    /\ forward_env = <<>>
    /\ env = MergeDicts(utf8_env, <<>>)
    /\ host_env = [name \in VarNames |-> NoneV]
    /\ runs = 0
    /\ executions = 0
    /\ extra_fields = AdapterFields
    /\ container_id = "cid"
    /\ docker_run = <<[envargs |-> StartArgs(forward_env, env, host_env),
                       outcome |-> "started"]>>
    /\ cleanups = <<>>
    /\ advanced = [n_calls |-> 0, cost |-> 0]
    /\ threads = <<>>
    /\ file \in Files
    /\ call = NoCall
NextTools == CodeReplaceCall
SpecTools == InitTools /\ [][NextTools]_vars

(***************************************************************************)
(* LitellmResponseAPIModel.query when completion_cost raises on a response *)
(* the provider has given: _query has returned, the exception leaves       *)
(* query() before the counters are touched.                                *)
(***************************************************************************)
ModelCostFails(Responses) ==
    /\ pc = "model"
    /\ \E content \in Responses :
          provider' = (IF previous_response_id = "None" THEN <<>> ELSE provider)
                      \o Input(messages, previous_response_id)
                      \o <<Clean(Assistant(Raw(content)))>>
    /\ previous_response_id' = "resp"
    /\ sent' = Input(messages, previous_response_id)
    /\ attempts' = attempts + 1
    /\ exc' = Raise("Exception", Raw(<<"completion_cost">>))
    /\ pc' = "except"
    /\ UNCHANGED <<messages, step_limit, cost_limit, n_calls, cost, response, action,
                   proc, output, ret, exit_status, result, failure, mixin, sandbox,
                   runs, others, executions>>
NextCost ==
    \/ Loop({OneCommand, <<WORD>>}, SampleCosts, FewOutcomes)
    \/ ModelCostFails({OneCommand, <<WORD>>})
SpecCost == InitLive /\ [][NextCost]_vars

(***************************************************************************)
(* run() called more than once on one agent: the adapter object, with its  *)
(* _previous_response_id, is the same in every run.                        *)
(***************************************************************************)
NextRerun ==
    \/ Loop({OneCommand, <<WORD>>}, {0}, FewOutcomes)
    \/ RunAgain
SpecRerun == Init /\ [][NextRerun]_vars

(***************************************************************************)
(* One run() of the experiment agent under every consultation setting.     *)
(***************************************************************************)
InitRoutine == InitConsult /\ cost_limit = 0 /\ ~initial_analysis
NextRoutine ==
    \/ Loop({OneCommand, <<WORD>>}, {0}, ConsultSandbox)
    \/ RoutineConsult
    \/ Consult
SpecRoutine == InitRoutine /\ [][NextRoutine]_vars

(***************************************************************************)
(* Properties.                                                             *)
(***************************************************************************)
Last(seq) == seq[Len(seq)]
Ended == {"returned", "raised", "saved", "saved_raising"}

\* C1: a FormatError or an ExecutionTimeoutError raised by a step is caught
\* by run(): exactly one user message with the condition's text is appended,
\* run() does not return and starts another step(); neither condition is
\* ever what run() returns, what leaves run(), or what main records.
C1_RecoverableHandled ==
    [][ (pc = "except" /\ exc.kind \in {"FormatError", "ExecutionTimeoutError"})
          => /\ messages' = Append(messages, Msg("user", exc.text))
             /\ pc' = "step"
             /\ ret' = ret ]_vars
C1_NeverLeavesRun ==
    /\ ret.kind \notin {"FormatError", "ExecutionTimeoutError"}
    /\ exit_status \notin {"FormatError", "ExecutionTimeoutError"}
    /\ pc \in Ended => exc.kind \notin {"FormatError", "ExecutionTimeoutError"}
C1_Recoverable == C1_RecoverableHandled /\ []C1_NeverLeavesRun
\* a format error has been answered with its message and the loop stands at
\* the next step
C1_Witness ==
    /\ pc = "step"
    /\ exc.kind = "FormatError"
    /\ Len(messages) >= 4
    /\ Last(messages) = Msg("user", exc.text)
    /\ messages[Len(messages) - 1].role = "assistant"

\* C2: with step_limit = N > 0 and N calls made, query() raises
\* LimitsExceeded before the adapter is invoked: the call count stays N, no
\* message is appended by query(), and run() returns the kind LimitsExceeded
\* after appending the (empty) text of the condition as a user message.
C2_StepCeiling ==
    /\ [][ (pc = "step" /\ step_limit > 0 /\ n_calls = step_limit)
             => /\ pc' = "except"
                /\ exc'.kind = "LimitsExceeded"
                /\ n_calls' = n_calls
                /\ messages' = messages ]_vars
    /\ [][ (pc = "except" /\ exc.kind = "LimitsExceeded")
             => /\ pc' = "returned"
                /\ ret'.kind = "LimitsExceeded"
                /\ n_calls' = n_calls
                /\ Len(messages') = Len(messages) + 1
                /\ Last(messages').role = "user" ]_vars
    /\ [](step_limit > 0 => n_calls <= step_limit)
\* a run stopped by a step ceiling of 2 after exactly 2 calls, the cost
\* ceiling disabled
C2_Witness ==
    /\ pc = "returned"
    /\ ret.kind = "LimitsExceeded"
    /\ step_limit = 2
    /\ cost_limit = 0
    /\ n_calls = 2

\* C3: query() raises LimitsExceeded exactly when (step_limit > 0 and
\* n_calls >= step_limit) or (cost_limit > 0 and cost >= cost_limit); when
\* it raises, the adapter is not called (counters unchanged); otherwise the
\* adapter is called.  A ceiling of 0 does not count.
C3_LimitsExactly ==
    [][ pc = "step" =>
          IF \/ (step_limit > 0 /\ n_calls >= step_limit)
             \/ (cost_limit > 0 /\ cost >= cost_limit)
          THEN /\ pc' = "except"
               /\ exc'.kind = "LimitsExceeded"
               /\ n_calls' = n_calls
               /\ cost' = cost
          ELSE /\ pc' = "model"
               /\ exc' = exc ]_vars
\* both ceilings 0: the adapter is called again after a call that cost
\* something
C3_Witness ==
    /\ pc = "model"
    /\ step_limit = 0
    /\ cost_limit = 0
    /\ n_calls >= 1
    /\ cost >= 1

\* the position of the first token of s that is not whitespace, 0 if none
FirstInk(s) ==
    LET P == {i \in 1..Len(s) : ~IsWS(s[i])} IN IF P = {} THEN 0 ELSE Min(P)
\* the position where the line of position i ends: its line break, or the
\* end of s
LineEnd(s, i) ==
    LET B == {j \in i..Len(s) : s[j] = NL} IN IF B = {} THEN Len(s) ELSE Min(B)
\* the first non-blank line of s from its first non-blank token on, without
\* the line break
FirstLine(s) ==
    LET i == FirstInk(s)
        e == LineEnd(s, i)
    IN SubSeq(s, i, IF s[e] = NL THEN e - 1 ELSE e)
\* everything after the first non-blank line
AfterFirstLine(s) == SubSeq(s, LineEnd(s, FirstInk(s)) + 1, Len(s))

\* C4 (as stated): a string output ends the run with Submitted iff its first
\* non-blank line, leading whitespace stripped, equals a sentinel.
C4_LeadingStripOnly ==
    [][ (pc = "execute" /\ proc'.kind = "exit" /\ output'.output.t = "str")
          => LET s == output'.output.s
             IN (pc' = "except" /\ exc'.kind = "Submitted")
                   <=> (FirstInk(s) # 0 /\ FirstLine(s) \in Sentinels) ]_vars

\* C4: a string output ends the run with kind Submitted iff its first
\* non-blank line, leading and trailing whitespace stripped, equals one of
\* the sentinels; the payload returned and recorded is everything after that
\* line; any other string output leads to the normal observation.
C4_SentinelStep ==
    [][ (pc = "execute" /\ proc'.kind = "exit" /\ output'.output.t = "str")
          => LET s == output'.output.s
             IN IF FirstInk(s) # 0 /\ RStrip(FirstLine(s)) \in Sentinels
                THEN /\ pc' = "except"
                     /\ exc' = Raise("Submitted", Raw(AfterFirstLine(s)))
                ELSE pc' = "observe" ]_vars
C4_SubmittedReturns ==
    [][ (pc = "except" /\ exc.kind = "Submitted")
          => (pc' = "returned" /\ ret' = exc) ]_vars
C4_SubmittedOnlyBySentinel ==
    /\ ret.kind = "Submitted" =>
          /\ output.output.t = "str"
          /\ FirstInk(output.output.s) # 0
          /\ RStrip(FirstLine(output.output.s)) \in Sentinels
          /\ ret.text = Raw(AfterFirstLine(output.output.s))
    /\ exit_status = "Submitted" => (ret.kind = "Submitted" /\ result = ret.text)
C4_Sentinel == C4_SentinelStep /\ C4_SubmittedReturns /\ []C4_SubmittedOnlyBySentinel
\* a sentinel line with a trailing blank, then the deliverable
C4_Witness ==
    /\ pc = "saved"
    /\ exit_status = "Submitted"
    /\ proc.stdout = <<SENT2, SP, NL, WORD>>
    /\ result = Raw(<<WORD>>)

\* the positions of the fences of a response
FencePositions(s) == {i \in 1..Len(s) : s[i] = FENCE}
\* a response with one fenced command block and no other fence: the opening
\* fence carries the tag, the rest of its line is blank, the closing fence
\* stands at the start of a later line
OneBlock(s) ==
    LET P == FencePositions(s)
    IN /\ Cardinality(P) = 2
       /\ s[Min(P) + 1] = BASH
       /\ s[Max(P) - 1] = NL
       /\ \E k \in (Min(P) + 2)..(Max(P) - 2) :
             s[k] = NL /\ \A m \in (Min(P) + 2)..(k - 1) : IsWS(s[m])
\* what stands between the tag and the line break before the closing fence
BlockText(s) == SubSeq(s, Min(FencePositions(s)) + 2, Max(FencePositions(s)) - 2)

\* C5: for a response with exactly one fenced command block, parse_action
\* returns the block's text with the whitespace around it trimmed, and that
\* action is the command the sandbox executor is run with.
C5_OneBlock ==
    /\ [][ (pc = "parse" /\ OneBlock(response))
             => (pc' = "execute" /\ action' = Strip(BlockText(response))) ]_vars
    /\ [][ pc = "execute" => proc'.cmd = action ]_vars
\* the command of a padded block inside surrounding text has run, trimmed
C5_Witness ==
    /\ pc = "observe"
    /\ OneBlock(response)
    /\ response[1] = WORD
    /\ Last(response) = WORD
    /\ BlockText(response) = <<SP, NL, SP, WORD, SP, WORD>>
    /\ proc.cmd = <<WORD, SP, WORD>>

\* a fenced command block lies somewhere in s
HasBlock(s) ==
    \E i, k, j \in 1..Len(s) :
        /\ i + 2 <= k /\ k < j
        /\ s[i] = FENCE /\ s[i + 1] = BASH
        /\ \A m \in (i + 2)..(k - 1) : IsWS(s[m])
        /\ s[k] = NL
        /\ CloseAt(s, j)
\* s can be cut in two parts with a fenced command block in each
TwoBlocks(s) ==
    \E p \in 1..(Len(s) - 1) :
        HasBlock(SubSeq(s, 1, p)) /\ HasBlock(SubSeq(s, p + 1, Len(s)))

\* C6: for a response with no fenced command block or with two or more,
\* parse_action raises FormatError: no command is run in that step, one
\* format-error user message is appended after the assistant message, and
\* the run goes on with the next step.
C6_FormatError ==
    /\ [][ (pc = "parse" /\ (~HasBlock(response) \/ TwoBlocks(response)))
             => /\ pc' = "except"
                /\ exc'.kind = "FormatError"
                /\ proc' = proc ]_vars
    /\ [][ (pc = "except" /\ exc.kind = "FormatError")
             => /\ Last(messages).role = "assistant"
                /\ messages' = Append(messages, Msg("user", exc.text))
                /\ pc' = "step" ]_vars

\* C7: when the sandbox command runs into its timeout, execute_action raises
\* ExecutionTimeoutError whose text is the timeout template rendered with
\* the action and the output captured so far; run() appends exactly that one
\* user message, no observation, and starts the next step().
C7_Timeout ==
    /\ [][ (pc = "execute" /\ proc'.kind = "timeout")
             => /\ pc' = "except"
                /\ exc' = Raise("ExecutionTimeoutError",
                                Rendered("timeout_template", action, <<>>,
                                         StrV(proc'.stdout), NoneV))
                /\ messages' = messages
                /\ output' = output ]_vars
    /\ [][ (pc = "except" /\ exc.kind = "ExecutionTimeoutError")
             => /\ messages' = Append(messages, Msg("user", exc.text))
                /\ pc' = "step" ]_vars
\* a timeout with captured output has been answered with its message
C7_Witness ==
    /\ pc = "step"
    /\ proc.kind = "timeout"
    /\ proc.stdout = <<WORD>>
    /\ exc.kind = "ExecutionTimeoutError"
    /\ Last(messages).content.tpl = "timeout_template"
    /\ Last(messages).content.output = StrV(<<WORD>>)
    /\ messages[Len(messages) - 1].role = "assistant"

\* any other condition leaves run() at once, nothing appended
C8_LeavesRun ==
    [][ (pc = "except"
         /\ exc.kind \notin {"FormatError", "ExecutionTimeoutError",
                             "LimitsExceeded", "Submitted"})
          => (pc' = "raised" /\ exc' = exc /\ messages' = messages) ]_vars

\* C8 (as stated): every condition that leaves run() is recorded with its
\* identifier as the kind and its message as the result.
C8_AnyCondition ==
    /\ C8_LeavesRun
    /\ [][ pc = "raised"
             => (exit_status' = exc.kind /\ result' = exc.text) ]_vars

\* C8: a condition of the adapter or the executor that is none of the four
\* conditions of the loop leaves run() at once; if it is an Exception the
\* run is recorded with the condition's identifier as kind and its message
\* as result; KeyboardInterrupt passes main's handler and the trajectory is
\* saved with kind and result still None.
C8_Fatal ==
    /\ C8_LeavesRun
    /\ [][ (pc = "raised" /\ exc.kind # "KeyboardInterrupt")
             => /\ pc' = "saved"
                /\ exit_status' = exc.kind
                /\ result' = exc.text ]_vars
    /\ [][ (pc = "raised" /\ exc.kind = "KeyboardInterrupt")
             => /\ pc' = "saved_raising"
                /\ exit_status' = "None"
                /\ result' = result ]_vars
\* an authentication failure of the adapter, recorded by main
C8_Witness ==
    /\ pc = "saved"
    /\ exit_status = "AuthenticationError"
    /\ result = Raw(<<"AuthenticationError">>)
    /\ ret = NoExc

\* C9 (as stated): run() eventually returns by LimitsExceeded or Submitted.
C9_ReturnsByLimitOrSubmission ==
    <>(pc = "returned" /\ ret.kind \in {"LimitsExceeded", "Submitted"})

\* C9: with a step ceiling step_limit > 0, and every call returning or
\* failing, the run ends after at most step_limit model calls: run()
\* returns (LimitsExceeded or Submitted) or a failure of a collaborator
\* leaves it, and main has saved the outcome.
C9_Terminates ==
    /\ [](n_calls <= step_limit)
    /\ [](pc = "returned" => ret.kind \in {"LimitsExceeded", "Submitted"})
    /\ <>(pc \in {"saved", "saved_raising"})
\* a run that used up its step ceiling without submitting
C9_Witness ==
    /\ pc = "saved"
    /\ exit_status = "LimitsExceeded"
    /\ step_limit = 2
    /\ n_calls = 2
    /\ Len(messages) = 7

\* the keys of the members of an object, and the value under a key
KeysOf(pairs) == {pairs[m].k : m \in 1..Len(pairs)}
ValueOf(pairs, key) == pairs[CHOOSE m \in 1..Len(pairs) : pairs[m].k = key].v
Envelope(g) ==
    [output |-> ValueOf(g.pairs, <<KOUTPUT>>),
     returncode |-> ValueOf(g.pairs, <<KRETURNCODE>>)]

\* C10 (as stated): the envelope is unwrapped iff the trimmed output is a
\* JSON object whose keys are exactly output and returncode.
C10_ExactKeys ==
    [][ (pc = "execute" /\ proc'.kind = "exit")
          => LET g == proc'.gen
             IN IF /\ g.form = "object"
                   /\ KeysOf(g.pairs) = {<<KOUTPUT>>, <<KRETURNCODE>>}
                THEN output' = Envelope(g)
                ELSE output' = [output |-> StrV(proc'.stdout),
                                returncode |-> NumV(proc'.returncode)] ]_vars

\* C10: execute returns the fields output and returncode of the command's
\* JSON envelope, not the shell's exit code, iff the whole trimmed output is
\* a JSON object that has at least the keys output and returncode; for text
\* that is no JSON, JSON that is no object, an object that lacks one of the
\* keys, or an object with text after it, it returns the raw output and the
\* shell's return code.
C10_Envelope ==
    [][ (pc = "execute" /\ proc'.kind = "exit")
          => LET g == proc'.gen
             IN /\ proc'.stdout = Emit(g)
                /\ IF /\ g.form = "object"
                      /\ {<<KOUTPUT>>, <<KRETURNCODE>>} \subseteq KeysOf(g.pairs)
                   THEN output' = Envelope(g)
                   ELSE output' = [output |-> StrV(proc'.stdout),
                                   returncode |-> NumV(proc'.returncode)] ]_vars
\* an envelope with a third key, printed by a command that exited with 0:
\* the return code of the envelope is what execute returned
C10_Witness ==
    /\ proc.kind = "exit"
    /\ proc.gen.form = "object"
    /\ Len(proc.gen.pairs) = 3
    /\ proc.returncode = 0
    /\ output = [output |-> StrV(<<SENT1, NL, WORD>>), returncode |-> NumV(3)]

\* C11: every result execute returned has a string as output and an integer
\* as returncode, and has_finished never fails on the type of a result.
C11_TypedResult ==
    /\ output # NoOutput =>
          (output.output.t = "str" /\ output.returncode.t = "int")
    /\ exc.kind # "AttributeError"

\* messages whose content was rendered from the named template
FromTemplate(tpl) == {i \in 1..Len(messages) : messages[i].content.tpl = tpl}

\* C12: once run() has appended its two opening messages, whatever steps,
\* recoverable errors and consultations follow, the first message is the
\* rendered system prompt with role system and the second the rendered task
\* prompt with role user.
C12_OpeningMessages ==
    pc # "idle"
      => /\ Len(messages) >= 2
         /\ messages[1].role = "system"
         /\ messages[1].content.tpl = "system_template"
         /\ messages[2].role = "user"
         /\ messages[2].content.tpl = "instance_template"
\* a run that has seen a format error and a consultation
C12_Witness ==
    /\ FromTemplate("format_error_template") # {}
    /\ FromTemplate("advanced_model_consultation") # {}
    /\ FromTemplate("action_observation_template") # {}
    /\ FromTemplate("system_template") = {1}
    /\ FromTemplate("instance_template") = {2}

\* C13: within one run every operation of the loop (query, parse, execute,
\* observe, error handling, consultation) leaves the messages appended so
\* far unchanged and in place; the list is emptied only where run() starts.
C13_AppendOnly ==
    [][ \/ /\ pc \in {"idle", "returned"}
           /\ pc' = "step"
        \/ /\ Len(messages') >= Len(messages)
           /\ SubSeq(messages', 1, Len(messages)) = messages ]_vars
\* an on-demand consultation has been appended behind the messages of a
\* second run
C13_Witness ==
    /\ runs = 2
    /\ pc = "observe"
    /\ Len(messages) >= 4
    /\ Last(messages) = Msg("user", Consultation("on_demand", "response"))

\* C14: where run() starts, also a second time on the same agent and model,
\* the call count and the accumulated cost that query() compares with the
\* ceilings are zero (the cost of the initial analysis this run() made
\* apart).
C14_BudgetReset ==
    [][ (pc \in {"idle", "returned"} /\ pc' = "step")
          => /\ n_calls' = 0
             /\ cost' \in (IF initial_analysis /\ advanced_model
                           THEN ConsultCosts ELSE {0}) ]_vars

\* the step is the return of model.query to query()
IsModelCall == pc = "model" /\ pc' = "parse"
\* the step is a consultation of the advanced model
IsConsultation ==
    \/ pc = "step" /\ pc' = "query"
    \/ pc = "consult" /\ pc' = "observe"
\* the step is a start of run()
IsRunStart == pc \in {"idle", "returned"} /\ pc' = "step"

\* C15: the call count and the accumulated cost never decrease and change
\* only in a model call made by query(): the count by one, the cost by the
\* cost of the call; no other operation of the loop changes them.
C15_OnlyModelCall ==
    [][ /\ n_calls' >= n_calls
        /\ cost' >= cost
        /\ (n_calls' # n_calls \/ cost' # cost)
             => (IsModelCall /\ n_calls' = n_calls + 1) ]_vars
\* C15 as the code has it: the cost also grows by what a consultation of
\* the advanced model or the initial analysis of run() cost.
C15_Budget ==
    [][ /\ n_calls' >= n_calls
        /\ cost' >= cost
        /\ n_calls' # n_calls => (IsModelCall /\ n_calls' = n_calls + 1)
        /\ IsModelCall => (n_calls' = n_calls + 1 /\ cost' - cost \in SampleCosts)
        /\ cost' # cost
             => \/ IsModelCall
                \/ IsConsultation /\ advanced_model /\ cost' - cost \in ConsultCosts
                \/ IsRunStart /\ initial_analysis /\ advanced_model
                              /\ cost' - cost \in ConsultCosts ]_vars
\* one model call and one consultation have each added to the cost
C15_Witness ==
    /\ n_calls = 1
    /\ consultation_count = 1
    /\ cost = 2
    /\ ~initial_analysis
    /\ runs = 1

\* C16: after every adapter call of a run the conversation the provider
\* holds (what it received through the response id and the messages sent
\* with the call, with its answer) is the loop's message list: every message
\* appended since the previous call has been delivered once and in order.
C16_Transparent ==
    (pc = "parse" /\ runs = 1) => provider = CleanAll(messages)

\* C17: every message the adapter hands to the provider carries the fields
\* role and content and no other: the timestamp and the extra fields of the
\* loop's messages are left out, for every message of every call.
C17_RoleAndContent ==
    \A i \in 1..Len(sent) : DOMAIN sent[i] = {"role", "content"}
\* a call without a response id has sent the whole list, an assistant
\* message with its extra among it
C17_Witness ==
    /\ pc = "parse"
    /\ Len(sent) >= 4
    /\ \E i \in 1..Len(sent) :
          /\ sent[i].role = "assistant"
          /\ "extra" \in DOMAIN messages[i]
          /\ "timestamp" \in DOMAIN messages[i]
          /\ sent[i].content = messages[i].content

\* the step is a provider call that failed
IsFailedAttempt == pc = "model" /\ attempts' = attempts + 1 /\ pc' # "parse"

\* C18: a provider call that fails with an unsupported-parameter,
\* not-found, permission-denied, context-window-exceeded, API or
\* authentication error or with KeyboardInterrupt is the last attempt of the
\* query: the error is raised to the loop at once (after one attempt when no
\* other failure went before), and n_calls, cost and the response id stay as
\* they were.
C18_NoRetry ==
    [][ (IsFailedAttempt /\ failure' \in NonRetryable)
          => /\ pc' = "except"
             /\ exc' = Raise(failure', Raw(<<failure'>>))
             /\ failure \notin TransientErrors => attempts' = 1
             /\ n_calls' = n_calls
             /\ cost' = cost
             /\ previous_response_id' = previous_response_id ]_vars
\* the second query of a run failed at its first attempt with an input that
\* is too long
C18_Witness ==
    /\ pc = "except"
    /\ exc.kind = "ContextWindowExceededError"
    /\ attempts = 1
    /\ n_calls = 1
    /\ previous_response_id = "resp"

\* C19: a failure outside the listed classes is retried; one query() makes
\* at most 10 provider calls: it returns the first response, or after the
\* tenth failure raises that failure to the loop; it does not stay in the
\* adapter forever.
C19_AttemptsBounded == attempts <= MaxAttempts
C19_RetryOrRaise ==
    [][ (IsFailedAttempt /\ failure' \in TransientErrors)
          => IF attempts' < MaxAttempts
             THEN pc' = "model" /\ exc' = exc
             ELSE pc' = "except" /\ exc' = Raise(failure', Raw(<<failure'>>)) ]_vars
C19_FirstResponseReturned ==
    [][ (pc = "model" /\ pc' = "parse")
          => /\ attempts' = attempts + 1
             /\ n_calls' = n_calls + 1
             /\ Last(messages').role = "assistant" ]_vars
C19_Retries ==
    /\ []C19_AttemptsBounded
    /\ C19_RetryOrRaise
    /\ C19_FirstResponseReturned
    /\ (pc = "model" ~> pc # "model")
\* the tenth attempt of a query failed like the nine before and the failure
\* has reached the loop
C19_Witness ==
    /\ pc = "except"
    /\ attempts = MaxAttempts
    /\ exc.kind = "RateLimitError"
    /\ failure = "RateLimitError"

\* the names listed in forward_env
ForwardNames == {forward_env[i] : i \in 1..Len(forward_env)}
\* the -e options of the last docker exec
Options == {proc.envargs[i] : i \in 1..Len(proc.envargs)}

\* C20: in the docker exec of every execute call, a name listed in
\* forward_env is passed with the host's value, and only when the host has
\* the name set; every item of env is passed; for a name in both the command
\* finds the value of env.
C20_Environment ==
    proc.kind # "none"
      => /\ \A o \in Options :
               \/ o.k \in DictKeys(env) /\ o.v = DictGet(env, o.k)
               \/ o.k \in ForwardNames /\ host_env[o.k] # NoneV /\ o.v = host_env[o.k]
         /\ \A name \in ForwardNames :
               host_env[name] # NoneV => EnvVar(name, host_env[name]) \in Options
         /\ \A name \in ForwardNames \ DictKeys(env) :
               Seen(proc.envargs, name) = host_env[name]
         /\ \A j \in 1..Len(env) : env[j] \in Options
         /\ \A key \in DictKeys(env) : Seen(proc.envargs, key) = DictGet(env, key)
\* a command has run with LANG forwarded from the host and set by env to
\* another value, and TOKEN listed and not set on the host
C20_Witness ==
    /\ proc.kind = "exit"
    /\ forward_env = <<"TOKEN", "LANG">>
    /\ host_env["LANG"] = StrV(<<"host">>)
    /\ host_env["TOKEN"] = NoneV
    /\ DictGet(env, "LANG") = StrV(<<"conf">>)
    /\ "TOKEN" \notin DictKeys(env)
    /\ Len(proc.envargs) = 4

\* C21: the docker run that provisions the container carries the same
\* environment as a docker exec of execute: a name listed in forward_env and
\* set on the host is passed with the host's value, every item of env is
\* passed, and for a name in both the value of env is in effect.
C21_StartEnvironment ==
    \A n \in 1..Len(docker_run) :
       LET args == docker_run[n].envargs
       IN /\ \A name \in ForwardNames :
                host_env[name] # NoneV => \E j \in 1..Len(args) : args[j].k = name
          /\ \A name \in ForwardNames \ DictKeys(env) :
                Seen(args, name) = host_env[name]
          /\ \A j \in 1..Len(env) : \E i \in 1..Len(args) : args[i] = env[j]
          /\ \A key \in DictKeys(env) : Seen(args, key) = DictGet(env, key)

\* C22: when the docker run of the construction fails or runs out of time,
\* the construction fails with that error after this one docker run: no
\* second one is made, no container id is recorded and no command is run.
C22_ProvisioningFails ==
    /\ Len(docker_run) <= 1
    /\ (docker_run # <<>> /\ docker_run[1].outcome # "started")
         => /\ pc = "construction_failed"
            /\ exc = Raise(docker_run[1].outcome, Raw(<<docker_run[1].outcome>>))
            /\ container_id = "None"
            /\ proc = NoProc
            /\ executions = 0
\* the pull ran out of time, and a cleanup of the failed environment has
\* started no shell
C22_Witness ==
    /\ pc = "construction_failed"
    /\ exc.kind = "TimeoutExpired"
    /\ Len(docker_run) = 1
    /\ docker_run[1].outcome = "TimeoutExpired"
    /\ Len(cleanups) = 1
    /\ cleanups[1].phase = "none"

\* C23: cleanup can be called in every state of a constructed or failed
\* environment and returns without waiting and without an exception: it
\* starts a shell in the background when there is a container id and does
\* nothing else; that shell stops the container within a time limit and
\* removes it by force only when the stop failed or ran out of time.
C23_CanAlways == (pc # "new" /\ Len(cleanups) < MaxCleanups) => ENABLED Cleanup
C23_ForcedOnlyAfterStop ==
    \A i \in 1..Len(cleanups) :
       (cleanups[i].rm \/ cleanups[i].phase = "rm")
          => cleanups[i].stop \in {"failed", "timed_out"}
C23_Returns ==
    [][ Len(cleanups') > Len(cleanups)
          => /\ UNCHANGED <<pc, exc, container_id, proc>>
             /\ SubSeq(cleanups', 1, Len(cleanups)) = cleanups
             /\ Last(cleanups').stop = "pending"
             /\ Last(cleanups').phase = IF container_id = "None" THEN "none" ELSE "stop" ]_vars
C24_Order ==
    [][ /\ pc' = "parse" => pc \in {"model", "parse"}
        /\ pc' = "execute" => pc \in {"parse", "execute"}
        /\ pc' = "observe" => pc \in {"execute", "consult", "observe"}
        /\ executions' # executions
             => (pc = "execute" /\ executions' = executions + 1 /\ proc'.cmd = action)
        /\ (pc = "observe" /\ pc' # "observe")
             => /\ messages' = Append(messages,
                                      Msg("user", Rendered("action_observation_template",
                                                           proc.cmd, <<>>, output.output,
                                                           output.returncode)))
                /\ pc' = "step" ]_vars
C24_CommandAfterMessage ==
    /\ pc = "execute"
         => /\ Last(messages).role = "assistant"
            /\ Last(messages).content = Raw(response)
            /\ action = Parsed[response].action
            /\ executions < n_calls
    /\ pc = "observe"
         => /\ proc.kind = "exit"
            /\ proc.cmd = action
            /\ output = ExecuteResult(proc.stdout, proc.returncode)
    /\ executions <= n_calls
C24_Sequential == C24_Order /\ []C24_CommandAfterMessage
\* two steps have each run their command and appended its observation
C24_Witness ==
    /\ pc = "step"
    /\ executions = 2
    /\ n_calls = 2
    /\ Cardinality(FromTemplate("action_observation_template")) = 2

\* the summed cost of the calls the threads made
RECURSIVE SumDeltas(_)
SumDeltas(ts) == IF ts = <<>> THEN 0 ELSE Head(ts).delta + SumDeltas(Tail(ts))

\* C25: when calls of query() on one adapter overlap, no increment of the
\* call count or of the cost is lost: once the calls have completed the
\* totals are their number and their summed cost.
C25_NoLostUpdate ==
    (\A t \in 1..Len(threads) : threads[t].at = "done")
      => /\ advanced.n_calls = Len(threads)
         /\ advanced.cost = SumDeltas(threads)

C27_AtReturn ==
    pc = "returned"
      => /\ ret.kind = "Submitted"
         /\ ret.text = Raw(SubSeq(proc.stdout, 3, Len(proc.stdout)))
         /\ ret.text.text \in Deliverables
         /\ Len(messages) = 6
         /\ SubSeq(messages, 1, 2) = Opening
         /\ messages[3].role = "assistant"
         /\ messages[3].content.text \in ScriptResponses
         /\ messages[4].role = "user"
         /\ messages[4].content.tpl = "action_observation_template"
         /\ messages[4].content.action = Parsed[messages[3].content.text].action
         /\ messages[5].role = "assistant"
         /\ messages[5].content = Raw(response)
         /\ messages[6] = Msg("user", ret.text)
         /\ n_calls = 2
         /\ executions = 2
\* the scripted run has returned Submitted with six messages
C27_Witness ==
    /\ pc = "returned"
    /\ ret.kind = "Submitted"
    /\ ret.text.text = <<WORD, NL, SP, WORD, NL>>
    /\ Len(messages) = 6

\* C28: code_replace reports success truthfully and fails without effect:
\* when it has returned False the file is as it was before the call, and
\* when it has returned True the range start_line..end_line was a valid one
\* and the lines of the file before it and after it are the same as before
\* the call, line ends included.
C28_TruthfulReplace ==
    /\ call.returned = "False" => file = call.before
    /\ call.returned = "True" =>
         LET old == SplitLines(call.before.content)
             new == SplitLines(file.content)
             after == Len(old) - call.end_line
         IN /\ call.before.exists
            /\ 1 <= call.start_line
            /\ call.start_line <= call.end_line
            /\ call.end_line <= Len(old)
            /\ Len(new) >= call.start_line - 1 + after
            /\ SubSeq(new, 1, call.start_line - 1) = SubSeq(old, 1, call.start_line - 1)
            /\ SubSeq(new, Len(new) - after + 1, Len(new))
                 = SubSeq(old, call.end_line + 1, Len(old))

\* C29: every step makes exactly one adapter call, whether it ends in an
\* observation, a format error or an execution timeout: between two steps
\* the conversation holds the two opening messages and, for each call made,
\* the assistant message and the user message of its step.  So with a step
\* ceiling step_limit > 0 and a fresh adapter the call count never exceeds
\* step_limit, and the sandbox has run at most as many commands as calls
\* were made.
C29_OneCallPerStep ==
    /\ pc = "step" => Len(messages) = 2 + 2 * n_calls
    /\ executions <= n_calls
    /\ step_limit > 0 => n_calls <= step_limit
\* the ceiling has ended a run in which a step without an execution (a
\* format error) was counted
C29_Witness ==
    /\ pc = "returned"
    /\ ret.kind = "LimitsExceeded"
    /\ step_limit = MaxStepLimit
    /\ n_calls = step_limit
    /\ executions < n_calls
    /\ Cardinality(FromTemplate("format_error_template")) > 0

\* C30: the bookkeeping of an adapter call is all-or-nothing: whether
\* query() returns or raises, the continuation handle moves to another
\* response only in a call that is counted and whose cost is added, and the
\* count moves only by one, in a call of query().
C30_AllOrNothing ==
    [][ /\ previous_response_id' # previous_response_id
          => (n_calls' = n_calls + 1 /\ cost' >= cost)
        /\ n_calls' # n_calls
          => (n_calls' = n_calls + 1 /\ cost' >= cost /\ pc = "model") ]_vars

\* C31: when run() is called again on an agent whose adapter has answered a
\* call, the first adapter call of the new run hands the provider the new
\* system and task messages as a fresh conversation: both messages are
\* sent, and the provider's conversation after the call is the new run's
\* message list.
C31_FreshConversation ==
    (pc = "parse" /\ runs > 1 /\ Len(messages) = 3)
      => /\ sent = CleanAll(Opening)
         /\ provider = CleanAll(messages)

\* C32: at most one query is in flight on the advanced model at any time:
\* no consultation starts a query thread while the thread of a consultation
\* that was given up with a timeout has not ended.
C32_OneInFlight ==
    Cardinality({t \in 1..Len(threads) : threads[t].at # "done"}) <= 1

\* C33: what the advanced model's calls cost is charged to the run budget:
\* once every call has completed and every consultation is back, the main
\* model's accumulated cost is the cost of its own calls (none are made
\* here) plus the summed cost of the advanced model's completed calls, those
\* of consultations that timed out included.
C33_FullyCharged ==
    (\A t \in 1..Len(threads) :
        threads[t].at = "done" /\ (threads[t].joined => threads[t].returned))
      => cost = SumDeltas(threads)

\* the routine consultation messages of the conversation, and the call
\* counts at which one is due
RoutineMessages ==
    {i \in 1..Len(messages) :
        /\ messages[i].content.tpl = "advanced_model_consultation"
        /\ messages[i].content.text[1] = "routine"}
Due ==
    IF consultation_strategy = "ROUTINE_ASK" /\ advanced_model
    THEN {k \in 1..n_calls : k % routine_ask_interval = 0}
    ELSE {}

\* C34: under ROUTINE_ASK with an advanced model a routine consultation
\* message is appended at the start of exactly the steps that begin with a
\* call count that is a positive multiple of routine_ask_interval: one
\* message for each such count, none before the first model call, none
\* under ASK_BY_AGENT, and only as the first thing of a step.
C34_Counts ==
    /\ Cardinality(RoutineMessages) <= Cardinality(Due)
    /\ pc \in {"query", "model"}
         => Cardinality(RoutineMessages) = Cardinality(Due)
    /\ pc \in {"step", "parse", "execute", "consult", "observe"}
         => Cardinality(RoutineMessages) = Cardinality(Due \ {n_calls})
    /\ n_calls = 0 => RoutineMessages = {}
    /\ consultation_strategy = "ASK_BY_AGENT" => RoutineMessages = {}
C34_AtStepStart ==
    [][ /\ (pc = "step" /\ pc' # "step")
          => ((Len(messages') = Len(messages) + 1 /\ Len(messages') \in RoutineMessages')
                <=> n_calls \in Due)
        /\ pc # "step" => RoutineMessages' \subseteq RoutineMessages ]_vars
C34_RoutineSchedule == []C34_Counts /\ C34_AtStepStart
\* with an interval of 2 the step after the second call began with the one
\* routine consultation of the run
C34_Witness ==
    /\ consultation_strategy = "ROUTINE_ASK"
    /\ routine_ask_interval = 2
    /\ n_calls = 2
    /\ pc = "query"
    /\ Cardinality(RoutineMessages) = 1

\* C35: no consultation is made once the budget is exhausted: when query()
\* has raised LimitsExceeded, the step it was called in has not begun with a
\* routine consultation, so the last message of the conversation is not a
\* routine consultation message.
C35_NoConsultationAtLimit ==
    (pc = "except" /\ exc.kind = "LimitsExceeded")
      => Len(messages) \notin RoutineMessages

\* the consultation messages of a conversation
ConsultationMessages(msgs) ==
    {i \in 1..Len(msgs) : msgs[i].content.tpl = "advanced_model_consultation"}

\* C36: a failing consultation never ends the run: whether the advanced
\* model answers, is missing, fails or times out, the consultation appends
\* its message (the advice, or the text that explains the failure), raises
\* nothing and the step goes on; the consultation counter grows by one with
\* a response and not otherwise.
C36_ConsultationNeverRaises ==
    [][ /\ ((pc = "consult" /\ pc' = "observe") \/ (pc = "step" /\ pc' = "query"))
          => /\ ConsultationMessages(messages') = ConsultationMessages(messages) \cup {Len(messages')}
             /\ Len(messages') = Len(messages) + 1
             /\ exc' = exc
             /\ ret' = ret
             /\ consultation_count' =
                  consultation_count
                  + (IF messages'[Len(messages')].content.text[2] = "response" THEN 1 ELSE 0)
        /\ pc = "consult" => pc' \in {"consult", "observe"}
        /\ consultation_count' # consultation_count
             => ConsultationMessages(messages') # ConsultationMessages(messages) ]_vars
\* a consultation that timed out was followed by the observation and another
\* model call, the counter still 0
C36_Witness ==
    /\ n_calls = 2
    /\ pc = "parse"
    /\ consultation_count = 0
    /\ \E i \in ConsultationMessages(messages) : messages[i].content.text[2] = "timeout"

\* C37: submission is decided from the output text alone: a command whose
\* output begins, after leading blanks, with a sentinel line ends the run as
\* Submitted with the text after that line, whatever return code the
\* command exits with.
C37_SubmittedStep ==
    [][ (pc = "execute" /\ proc'.kind = "exit" /\ FirstInk(proc'.stdout) # 0
           /\ RStrip(FirstLine(proc'.stdout)) \in Sentinels)
          => /\ exc' = Raise("Submitted", Raw(AfterFirstLine(proc'.stdout)))
             /\ pc' = "except"
             /\ output'.returncode = NumV(proc'.returncode) ]_vars
C37_SubmittedRun ==
    (pc \in {"returned", "saved"} /\ proc.kind = "exit" /\ FirstInk(proc.stdout) # 0
       /\ RStrip(FirstLine(proc.stdout)) \in Sentinels)
      => ret.kind = "Submitted"
C37_TextAlone == C37_SubmittedStep /\ []C37_SubmittedRun
\* a command that printed the sentinel line and exited with 1 has ended the
\* run as Submitted
C37_Witness ==
    /\ exit_status = "Submitted"
    /\ proc.returncode = 1
    /\ output.returncode = NumV(1)
    /\ result.text # <<>>

====
